---------------------------- MODULE Spec2Model ----------------------------
(***************************************************************************)
(* Model of src/app_working.py (TAC Resume Builder): the export manager    *)
(* (export_to_pdf / export_to_docx / export_to_html) and the Streamlit     *)
(* handlers that build the document held in session_state.resume_data.     *)
(*                                                                         *)
(* Python values are modelled as tagged JSON values [t, v]:                *)
(*   str  : v is a sequence of text tokens (the empty string is <<>>);     *)
(*          a markup-significant character is a token of its own           *)
(*   list : v is a sequence of JSON values                                 *)
(*   dict : v is a sequence of <<key, value>> pairs in insertion order     *)
(*   num  : v is an integer                                                *)
(*   null : None                                                           *)
(* Python text (str) built by the renderers is a sequence of tokens and    *)
(* concatenation is \o.  The bullet glyph U+2022 is the token "[bullet] "  *)
(* and a line break is the token "[newline]".  A call's result records     *)
(* either the value returned or the exception raised, with the output that *)
(* had been built when it was raised.                                      *)
(*                                                                         *)
(* Six specifications share the variables:                                 *)
(*   Spec        : the document, its import, Add Experience, the exports   *)
(*   AISpec      : the calls made on SimpleAIGenerator                     *)
(*   StoreSpec   : the calls made on UserManager and the users.json file,  *)
(*                 whose reads and writes may fail                         *)
(*   EditSpec    : Add and Delete on the work experience and education     *)
(*                 lists                                                   *)
(*   OverlapSpec : register_user and save_user_resume calls of two         *)
(*                 sessions, interleaved between load_users and save_users *)
(*   SessionSpec : the account sidebar (login, logout, create account,     *)
(*                 load and save a resume) next to import and Add          *)
(*                 Experience                                              *)
(***************************************************************************)
EXTENDS Integers, Sequences, FiniteSets, TLC

\* ------------------------------------------------------------------ bounds
\* Longest work_experience and education lists the Add forms are driven to.
MaxEntries == 2

\* ------------------------------------------------------- Python/JSON values
JStr(s) == [t |-> "str", v |-> s]

JList(l) == [t |-> "list", v |-> l]

JDict(p) == [t |-> "dict", v |-> p]

JNum(n) == [t |-> "num", v |-> n]

JNull == [t |-> "null", v |-> 0]

\* A one-token string.
S(tok) == JStr(<<tok>>)

EmptyStr == JStr(<<>>)

\* bool(x)
Truthy(x) ==
    CASE x.t = "str" -> Len(x.v) > 0
      [] x.t = "list" -> Len(x.v) > 0
      [] x.t = "dict" -> Len(x.v) > 0
      [] x.t = "num" -> x.v # 0
      [] OTHER -> FALSE

\* k in d, for a dict d
HasKey(d, k) == d.t = "dict" /\ \E i \in 1..Len(d.v) : d.v[i][1] = k

\* d[k], for a dict d that has k
Lookup(d, k) == d.v[CHOOSE i \in 1..Len(d.v) : d.v[i][1] = k][2]

\* d.get(k, default), for a dict d
Get(d, k, default) == IF HasKey(d, k) THEN Lookup(d, k) ELSE default

\* d[k] = val (the key keeps its position, a new key goes last)
SetKey(d, k, val) ==
    IF HasKey(d, k)
    THEN JDict([i \in 1..Len(d.v) |-> IF d.v[i][1] = k THEN <<k, val>> ELSE d.v[i]])
    ELSE JDict(Append(d.v, <<k, val>>))

\* str(x) as an f-string interpolates it: a str is copied character for
\* character, anything else is its repr.
Format(x) ==
    CASE x.t = "str" -> x.v
      [] x.t = "num" -> <<ToString(x.v)>>
      [] x.t = "null" -> <<"None">>
      [] x.t = "list" -> <<"[...]">>
      [] OTHER -> <<"{...}">>

\* iter(x): the items a for loop visits, or the exception it raises.
NoErr == "none"

IterErr(x) == IF x.t \in {"str", "list", "dict"} THEN NoErr ELSE "TypeError"

IterItems(x) ==
    CASE x.t = "list" -> x.v
      [] x.t = "str" -> [i \in 1..Len(x.v) |-> S(x.v[i])]
      [] x.t = "dict" -> [i \in 1..Len(x.v) |-> S(x.v[i][1])]
      [] OTHER -> <<>>

\* sep.join(x): TypeError unless x is an iterable of str.
JoinErr(x) ==
    IF IterErr(x) # NoErr THEN "TypeError"
    ELSE IF \E i \in 1..Len(IterItems(x)) : IterItems(x)[i].t # "str" THEN "TypeError"
    ELSE NoErr

RECURSIVE JoinText(_, _)
JoinText(sep, items) ==
    IF Len(items) = 0 THEN <<>>
    ELSE IF Len(items) = 1 THEN items[1].v
    ELSE items[1].v \o <<sep>> \o JoinText(sep, Tail(items))

\* ------------------------------------------- partial results and exceptions
\* A rendering step yields the blocks it appended and the exception that cut
\* it short (NoErr when it ran to its end).
Ok(b) == [err |-> NoErr, blocks |-> b]

Raise(e) == [err |-> e, blocks |-> <<>>]

\* a; b  -- b runs only if a did not raise
Then(a, b) ==
    IF a.err # NoErr THEN a
    ELSE [err |-> b.err, blocks |-> a.blocks \o b.blocks]


\* ------------------------------------------------------------ PDF renderer
\* reportlab flowables: Paragraph(text, style) and Spacer(1, h).
Paragraph(text, style) == [f |-> "Paragraph", text |-> text, style |-> style, h |-> 0]

Spacer(h) == [f |-> "Spacer", text |-> <<>>, style |-> "none", h |-> h]

\* story.append(Paragraph(x, style)) for a document value x: the paragraph
\* parser works on text only.
AppendParagraph(x, style) ==
    IF x.t = "str" THEN Ok(<<Paragraph(x.v, style)>>) ELSE Raise("TypeError")

\* The values among email, phone, location that are truthy, in that order.
ContactInfo(personal) ==
    LET pick(k) == IF Truthy(Get(personal, k, JNull)) THEN <<Lookup(personal, k)>> ELSE <<>>
    IN  pick("email") \o pick("phone") \o pick("location")

PdfHeader(personal) ==
    IF personal.t # "dict" THEN Raise("AttributeError")
    ELSE IF ~Truthy(Get(personal, "full_name", JNull)) THEN Ok(<<>>)
    ELSE LET contact_info == ContactInfo(personal)
             contact == IF Len(contact_info) = 0 THEN Ok(<<>>)
                        ELSE IF JoinErr(JList(contact_info)) # NoErr THEN Raise("TypeError")
                        ELSE Ok(<<Paragraph(JoinText(" [bullet] ", contact_info), "body")>>)
         IN  Then(AppendParagraph(Lookup(personal, "full_name"), "title"),
             Then(contact, Ok(<<Spacer(12)>>)))

PdfSummary(resume_data) ==
    IF ~Truthy(Get(resume_data, "summary", JNull)) THEN Ok(<<>>)
    ELSE Then(Ok(<<Paragraph(<<"PROFESSIONAL SUMMARY">>, "heading")>>),
         Then(AppendParagraph(Lookup(resume_data, "summary"), "body"),
              Ok(<<Spacer(12)>>)))

RECURSIVE PdfBullets_Reversed(_)
PdfBullets_Reversed(items) ==
    IF Len(items) = 0 THEN <<>>
    ELSE PdfBullets_Reversed(Tail(items))
             \o <<Paragraph(<<"[bullet] ">> \o Format(items[1]), "body")>>

RECURSIVE PdfBullets(_)
PdfBullets(items) ==
    IF Len(items) = 0 THEN <<>>
    ELSE <<Paragraph(<<"[bullet] ">> \o Format(items[1]), "body")>> \o PdfBullets(Tail(items))

\* The date line of one entry, as the PDF and DOCX renderers compose it.
DateRange(exp) ==
    Format(Get(exp, "start_date", EmptyStr)) \o <<" to ">>
        \o Format(Get(exp, "end_date", S("Present")))

PdfJob(exp) ==
    IF exp.t # "dict" THEN Raise("AttributeError")
    ELSE LET job_header ==
                 <<"<b>">> \o Format(Get(exp, "job_title", EmptyStr)) \o <<"</b>", " - ">>
                     \o Format(Get(exp, "company", EmptyStr))
                     \o (IF Truthy(Get(exp, "location", JNull))
                         THEN <<" (">> \o Format(Lookup(exp, "location")) \o <<")">>
                         ELSE <<>>)
             bullets == Get(exp, "bullets", JList(<<>>))
         IN  Then(Ok(<<Paragraph(job_header, "body"),
                       Paragraph(<<"<i>">> \o DateRange(exp) \o <<"</i>">>, "body")>>),
             Then(IF IterErr(bullets) # NoErr THEN Raise(IterErr(bullets))
                  ELSE Ok(PdfBullets(IterItems(bullets))),
                  Ok(<<Spacer(8)>>)))

RECURSIVE PdfJobs(_)
PdfJobs(items) ==
    IF Len(items) = 0 THEN Ok(<<>>)
    ELSE Then(PdfJob(items[1]), PdfJobs(Tail(items)))

PdfExperience(resume_data) ==
    LET work_exp == Get(resume_data, "work_experience", JList(<<>>))
    IN  IF ~Truthy(work_exp) THEN Ok(<<>>)
        ELSE Then(Ok(<<Paragraph(<<"PROFESSIONAL EXPERIENCE">>, "heading")>>),
                  IF IterErr(work_exp) # NoErr THEN Raise(IterErr(work_exp))
                  ELSE PdfJobs(IterItems(work_exp)))

PdfEdu(edu) ==
    IF edu.t # "dict" THEN Raise("AttributeError")
    ELSE LET edu_text ==
                 <<"<b>">> \o Format(Get(edu, "degree", EmptyStr)) \o <<"</b>">>
                     \o (IF Truthy(Get(edu, "major", JNull))
                         THEN <<" in ">> \o Format(Lookup(edu, "major")) ELSE <<>>)
                     \o <<" - ">> \o Format(Get(edu, "school", EmptyStr))
                     \o (IF Truthy(Get(edu, "graduation_date", JNull))
                         THEN <<" (">> \o Format(Lookup(edu, "graduation_date")) \o <<")">>
                         ELSE <<>>)
         IN  Ok(<<Paragraph(edu_text, "body"), Spacer(4)>>)

RECURSIVE PdfEdus(_)
PdfEdus(items) ==
    IF Len(items) = 0 THEN Ok(<<>>)
    ELSE Then(PdfEdu(items[1]), PdfEdus(Tail(items)))

PdfEducation(resume_data) ==
    LET education == Get(resume_data, "education", JList(<<>>))
    IN  IF ~Truthy(education) THEN Ok(<<>>)
        ELSE Then(Ok(<<Paragraph(<<"EDUCATION">>, "heading")>>),
                  IF IterErr(education) # NoErr THEN Raise(IterErr(education))
                  ELSE PdfEdus(IterItems(education)))

PdfSkillLine_Unguarded(category, skill_list) ==
    IF JoinErr(skill_list) # NoErr THEN Raise("TypeError")
    ELSE Ok(<<Paragraph(<<"<b>", category, ":</b> ">>
                          \o JoinText(", ", IterItems(skill_list)), "body")>>)

PdfSkillLine(category, skill_list) ==
    IF ~Truthy(skill_list) THEN Ok(<<>>)
    ELSE IF JoinErr(skill_list) # NoErr THEN Raise("TypeError")
    ELSE Ok(<<Paragraph(<<"<b>", category, ":</b> ">>
                          \o JoinText(", ", IterItems(skill_list)), "body")>>)

RECURSIVE PdfSkillLines(_)
PdfSkillLines(pairs) ==
    IF Len(pairs) = 0 THEN Ok(<<>>)
    ELSE Then(PdfSkillLine(pairs[1][1], pairs[1][2]), PdfSkillLines(Tail(pairs)))

PdfSkills(resume_data) ==
    LET skills == Get(resume_data, "skills", JDict(<<>>))
    IN  IF ~Truthy(skills) THEN Ok(<<>>)
        ELSE Then(Ok(<<Paragraph(<<"SKILLS">>, "heading")>>),
                  IF skills.t # "dict" THEN Raise("AttributeError")
                  ELSE PdfSkillLines(skills.v))

\* The story built by lines 192-257, or the exception that interrupts it.
PdfStory_EducationLast(resume_data) ==
    IF resume_data.t # "dict" THEN Raise("AttributeError")
    ELSE Then(PdfHeader(Get(resume_data, "personal", JDict(<<>>))),
         Then(PdfSummary(resume_data),
         Then(PdfExperience(resume_data),
         Then(PdfSkills(resume_data),
              PdfEducation(resume_data)))))

PdfStory(resume_data) ==
    IF resume_data.t # "dict" THEN Raise("AttributeError")
    ELSE Then(PdfHeader(Get(resume_data, "personal", JDict(<<>>))),
         Then(PdfSummary(resume_data),
         Then(PdfExperience(resume_data),
         Then(PdfEducation(resume_data),
              PdfSkills(resume_data)))))

\* What a call hands its caller: the value returned, or the exception raised
\* (its type, its message, the exception it was raised from) together with
\* the output that had been built when it was raised.
Returned(value) ==
    [ok |-> TRUE, value |-> value, exc |-> "none", msg |-> <<>>, cause |-> "none",
     partial |-> <<>>]

Raised(exc, msg, cause, partial) ==
    [ok |-> FALSE, value |-> <<>>, exc |-> exc, msg |-> msg, cause |-> cause,
     partial |-> partial]

\* export_to_pdf; buildFails: doc.build(story) raises (the layout engine or
\* the buffer fails).
export_to_pdf(resume_data, buildFails) ==
    LET body == PdfStory(resume_data)
    IN  IF body.err # NoErr
        THEN Raised("Exception", <<"PDF export failed: ", body.err>>, body.err, body.blocks)
        ELSE IF buildFails
        THEN Raised("Exception", <<"PDF export failed: ", "LayoutError">>, "LayoutError",
                    body.blocks)
        ELSE Returned(body.blocks)

\* ----------------------------------------------------------- DOCX renderer
\* python-docx paragraphs: a sequence of runs, a paragraph style, an alignment.
Run(text, bold, size) == [text |-> text, bold |-> bold, size |-> size]

DocxParagraph(runs, style, align) == [runs |-> runs, style |-> style, align |-> align]

\* doc.add_paragraph(text, style): one plain run holding text, none if empty.
AddParagraph(text, style) ==
    DocxParagraph(IF Len(text) = 0 THEN <<>> ELSE <<Run(text, FALSE, 0)>>, style, "left")

\* _add_section_heading(doc, title)
SectionHeading(title) == DocxParagraph(<<Run(<<title>>, TRUE, 14)>>, "Normal", "left")

DocxHeader(personal) ==
    IF personal.t # "dict" THEN Raise("AttributeError")
    ELSE IF ~Truthy(Get(personal, "full_name", JNull)) THEN Ok(<<>>)
    ELSE LET full_name == Lookup(personal, "full_name")
             contact_info == ContactInfo(personal)
             contact == IF Len(contact_info) = 0 THEN Ok(<<>>)
                        ELSE IF JoinErr(JList(contact_info)) # NoErr THEN Raise("TypeError")
                        ELSE Ok(<<DocxParagraph(
                                     <<Run(JoinText(" [bullet] ", contact_info), FALSE, 0)>>,
                                     "Normal", "center")>>)
         IN  Then(IF full_name.t # "str" THEN Raise("TypeError")
                  ELSE Ok(<<DocxParagraph(<<Run(full_name.v, TRUE, 18)>>, "Normal", "center")>>),
             Then(contact, Ok(<<AddParagraph(<<>>, "Normal")>>)))

DocxSummary(resume_data) ==
    IF ~Truthy(Get(resume_data, "summary", JNull)) THEN Ok(<<>>)
    ELSE Then(Ok(<<SectionHeading("PROFESSIONAL SUMMARY")>>),
              IF Lookup(resume_data, "summary").t # "str" THEN Raise("TypeError")
              ELSE Ok(<<AddParagraph(Lookup(resume_data, "summary").v, "Normal")>>))

RECURSIVE DocxBullets(_)
DocxBullets(items) ==
    IF Len(items) = 0 THEN Ok(<<>>)
    ELSE Then(IF items[1].t # "str" THEN Raise("TypeError")
              ELSE Ok(<<AddParagraph(items[1].v, "List Bullet")>>),
              DocxBullets(Tail(items)))

DocxJob(exp) ==
    IF exp.t # "dict" THEN Raise("AttributeError")
    ELSE LET job_run == Format(Get(exp, "job_title", EmptyStr)) \o <<" - ">>
                            \o Format(Get(exp, "company", EmptyStr))
             bullets == Get(exp, "bullets", JList(<<>>))
         IN  Then(Ok(<<DocxParagraph(<<Run(job_run, TRUE, 0)>>, "Normal", "left"),
                       AddParagraph(DateRange(exp), "Normal")>>),
             Then(IF IterErr(bullets) # NoErr THEN Raise(IterErr(bullets))
                  ELSE DocxBullets(IterItems(bullets)),
                  Ok(<<AddParagraph(<<>>, "Normal")>>)))

RECURSIVE DocxJobs_Reversed(_)
DocxJobs_Reversed(items) ==
    IF Len(items) = 0 THEN Ok(<<>>)
    ELSE Then(DocxJobs_Reversed(Tail(items)), DocxJob(items[1]))

RECURSIVE DocxJobs(_)
DocxJobs(items) ==
    IF Len(items) = 0 THEN Ok(<<>>)
    ELSE Then(DocxJob(items[1]), DocxJobs(Tail(items)))

DocxExperience(resume_data) ==
    LET work_exp == Get(resume_data, "work_experience", JList(<<>>))
    IN  IF ~Truthy(work_exp) THEN Ok(<<>>)
        ELSE Then(Ok(<<SectionHeading("PROFESSIONAL EXPERIENCE")>>),
                  IF IterErr(work_exp) # NoErr THEN Raise(IterErr(work_exp))
                  ELSE DocxJobs(IterItems(work_exp)))

DocxEdu(edu) ==
    IF edu.t # "dict" THEN Raise("AttributeError")
    ELSE LET degree == Get(edu, "degree", EmptyStr)
             runs == <<Run(degree.v, TRUE, 0)>>
                     \o (IF Truthy(Get(edu, "major", JNull))
                         THEN <<Run(<<" in ">> \o Format(Lookup(edu, "major")), FALSE, 0)>>
                         ELSE <<>>)
                     \o <<Run(<<" - ">> \o Format(Get(edu, "school", EmptyStr)), FALSE, 0)>>
                     \o (IF Truthy(Get(edu, "graduation_date", JNull))
                         THEN <<Run(<<" (">> \o Format(Lookup(edu, "graduation_date"))
                                        \o <<")">>, FALSE, 0)>>
                         ELSE <<>>)
         IN  IF degree.t # "str" THEN Raise("TypeError")
             ELSE Ok(<<DocxParagraph(runs, "Normal", "left")>>)

RECURSIVE DocxEdus(_)
DocxEdus(items) ==
    IF Len(items) = 0 THEN Ok(<<>>)
    ELSE Then(DocxEdu(items[1]), DocxEdus(Tail(items)))

DocxEducation(resume_data) ==
    LET education == Get(resume_data, "education", JList(<<>>))
    IN  IF ~Truthy(education) THEN Ok(<<>>)
        ELSE Then(Ok(<<SectionHeading("EDUCATION")>>),
                  IF IterErr(education) # NoErr THEN Raise(IterErr(education))
                  ELSE DocxEdus(IterItems(education)))

DocxSkillLine(category, skill_list) ==
    IF ~Truthy(skill_list) THEN Ok(<<>>)
    ELSE IF JoinErr(skill_list) # NoErr THEN Raise("TypeError")
    ELSE Ok(<<DocxParagraph(<<Run(<<category, ": ">>, TRUE, 0),
                              Run(JoinText(", ", IterItems(skill_list)), FALSE, 0)>>,
                            "Normal", "left")>>)

RECURSIVE DocxSkillLines(_)
DocxSkillLines(pairs) ==
    IF Len(pairs) = 0 THEN Ok(<<>>)
    ELSE Then(DocxSkillLine(pairs[1][1], pairs[1][2]), DocxSkillLines(Tail(pairs)))

DocxSkills(resume_data) ==
    LET skills == Get(resume_data, "skills", JDict(<<>>))
    IN  IF ~Truthy(skills) THEN Ok(<<>>)
        ELSE Then(Ok(<<SectionHeading("SKILLS")>>),
                  IF skills.t # "dict" THEN Raise("AttributeError")
                  ELSE DocxSkillLines(skills.v))

\* The paragraphs added by lines 279-351, or the exception that interrupts.
DocxBody(resume_data) ==
    IF resume_data.t # "dict" THEN Raise("AttributeError")
    ELSE Then(DocxHeader(Get(resume_data, "personal", JDict(<<>>))),
         Then(DocxSummary(resume_data),
         Then(DocxExperience(resume_data),
         Then(DocxEducation(resume_data),
              DocxSkills(resume_data)))))

\* export_to_docx; saveFails: doc.save(buffer) raises.
export_to_docx(resume_data, saveFails) ==
    LET body == DocxBody(resume_data)
    IN  IF body.err # NoErr
        THEN Raised("Exception", <<"DOCX export failed: ", body.err>>, body.err, body.blocks)
        ELSE IF saveFails
        THEN Raised("Exception", <<"DOCX export failed: ", "IOError">>, "IOError", body.blocks)
        ELSE Returned(body.blocks)

\* ----------------------------------------------------------- HTML renderer
\* The text is a token sequence: each literal piece of the template is one
\* token (attribute quotes left out), each interpolated value contributes its
\* own tokens unchanged.
HtmlHeader(personal) ==
    IF personal.t # "dict" THEN Raise("AttributeError")
    ELSE Ok(<<"<!DOCTYPE html><html><head><title>Resume - ">>
            \o Format(Get(personal, "full_name", S("Resume")))
            \o <<"</title><style>...</style></head><body>",
                 "<div class=header>", "<div class=name>">>
            \o Format(Get(personal, "full_name", EmptyStr))
            \o <<"</div>", "<div class=contact>">>
            \o Format(Get(personal, "email", EmptyStr)) \o <<" | ">>
            \o Format(Get(personal, "phone", EmptyStr)) \o <<" | ">>
            \o Format(Get(personal, "location", EmptyStr))
            \o <<"</div>">>)

HtmlLinks(personal) ==
    IF Truthy(Get(personal, "linkedin", JNull)) \/ Truthy(Get(personal, "website", JNull))
    THEN Ok(<<"<div class=contact>">>
            \o (IF Truthy(Get(personal, "linkedin", JNull))
                THEN <<"LinkedIn: ">> \o Format(Lookup(personal, "linkedin")) ELSE <<>>)
            \o (IF Truthy(Get(personal, "website", JNull))
                THEN <<" | Website: ">> \o Format(Lookup(personal, "website")) ELSE <<>>)
            \o <<"</div>", "</div>">>)
    ELSE Ok(<<"</div>">>)

HtmlSummary(resume_data) ==
    IF ~Truthy(Get(resume_data, "summary", JNull)) THEN Ok(<<>>)
    ELSE Ok(<<"<div class=section>", "<div class=section-title>", "Professional Summary",
              "</div>", "<p>">>
            \o Format(Lookup(resume_data, "summary")) \o <<"</p>", "</div>">>)

RECURSIVE HtmlBullets(_)
HtmlBullets(items) ==
    IF Len(items) = 0 THEN <<>>
    ELSE <<"<div class=bullet>", "[bullet] ">> \o Format(items[1]) \o <<"</div>">>
             \o HtmlBullets(Tail(items))

HtmlJob(exp) ==
    IF exp.t # "dict" THEN Raise("AttributeError")
    ELSE LET bullets == Get(exp, "bullets", JList(<<>>))
         IN  Then(Ok(<<"<div style=margin-bottom:20px>", "<div>", "<span class=job-title>">>
                     \o Format(Get(exp, "job_title", EmptyStr))
                     \o <<"</span>", " - ", "<span class=company>">>
                     \o Format(Get(exp, "company", EmptyStr))
                     \o <<"</span>", "</div>", "<div class=date-range>">>
                     \o Format(Get(exp, "start_date", EmptyStr)) \o <<" to ">>
                     \o Format(Get(exp, "end_date", S("Present"))) \o <<" | ">>
                     \o Format(Get(exp, "location", EmptyStr)) \o <<"</div>">>),
             Then(IF IterErr(bullets) # NoErr THEN Raise(IterErr(bullets))
                  ELSE Ok(HtmlBullets(IterItems(bullets))),
                  Ok(<<"</div>">>)))

RECURSIVE HtmlJobs(_)
HtmlJobs(items) ==
    IF Len(items) = 0 THEN Ok(<<>>)
    ELSE Then(HtmlJob(items[1]), HtmlJobs(Tail(items)))

HtmlExperience(resume_data) ==
    LET work_exp == Get(resume_data, "work_experience", JList(<<>>))
    IN  IF ~Truthy(work_exp) THEN Ok(<<>>)
        ELSE Then(Ok(<<"<div class=section>", "<div class=section-title>",
                       "Professional Experience", "</div>">>),
             Then(IF IterErr(work_exp) # NoErr THEN Raise(IterErr(work_exp))
                  ELSE HtmlJobs(IterItems(work_exp)),
                  Ok(<<"</div>">>)))

HtmlEdu(edu) ==
    IF edu.t # "dict" THEN Raise("AttributeError")
    ELSE Ok(<<"<div style=margin-bottom:15px>", "<div class=job-title>">>
            \o Format(Get(edu, "degree", EmptyStr)) \o <<" in ">>
            \o Format(Get(edu, "major", EmptyStr)) \o <<" - ">>
            \o Format(Get(edu, "school", EmptyStr))
            \o <<"</div>", "<div class=date-range>", "Graduated: ">>
            \o Format(Get(edu, "graduation_date", EmptyStr)) \o <<"</div>", "</div>">>)

RECURSIVE HtmlEdus(_)
HtmlEdus(items) ==
    IF Len(items) = 0 THEN Ok(<<>>)
    ELSE Then(HtmlEdu(items[1]), HtmlEdus(Tail(items)))

HtmlEducation(resume_data) ==
    LET education == Get(resume_data, "education", JList(<<>>))
    IN  IF ~Truthy(education) THEN Ok(<<>>)
        ELSE Then(Ok(<<"<div class=section>", "<div class=section-title>", "Education",
                       "</div>">>),
             Then(IF IterErr(education) # NoErr THEN Raise(IterErr(education))
                  ELSE HtmlEdus(IterItems(education)),
                  Ok(<<"</div>">>)))

HtmlSkillLine(category, skill_list) ==
    IF ~Truthy(skill_list) THEN Ok(<<>>)
    ELSE IF JoinErr(skill_list) # NoErr THEN Raise("TypeError")
    ELSE Ok(<<"<div class=skill-category>", "<strong>", category, ":</strong> ">>
            \o JoinText(", ", IterItems(skill_list)) \o <<"</div>">>)

RECURSIVE HtmlSkillLines(_)
HtmlSkillLines(pairs) ==
    IF Len(pairs) = 0 THEN Ok(<<>>)
    ELSE Then(HtmlSkillLine(pairs[1][1], pairs[1][2]), HtmlSkillLines(Tail(pairs)))

HtmlSkills(resume_data) ==
    LET skills == Get(resume_data, "skills", JDict(<<>>))
    IN  IF ~Truthy(skills) THEN Ok(<<>>)
        ELSE Then(Ok(<<"<div class=section>", "<div class=section-title>", "Skills",
                       "</div>">>),
             Then(IF skills.t # "dict" THEN Raise("AttributeError")
                  ELSE HtmlSkillLines(skills.v),
                  Ok(<<"</div>">>)))

\* The text built by lines 370-455, or the exception that interrupts it.
HtmlText(resume_data) ==
    IF resume_data.t # "dict" THEN Raise("AttributeError")
    ELSE LET personal == Get(resume_data, "personal", JDict(<<>>))
         IN  Then(HtmlHeader(personal),
             Then(HtmlLinks(personal),
             Then(HtmlSummary(resume_data),
             Then(HtmlExperience(resume_data),
             Then(HtmlEducation(resume_data),
             Then(HtmlSkills(resume_data),
                  Ok(<<"</body></html>">>)))))))

\* export_to_html has no try block: an exception leaves it as it was raised.
export_to_html(resume_data) ==
    LET body == HtmlText(resume_data)
    IN  IF body.err # NoErr
        THEN Raised(body.err, <<body.err>>, "none", body.blocks)
        ELSE Returned(body.blocks)

\* ------------------------------------------------- text helpers of the form
\* text.split('\n'); the newline character is the token "[newline]".
RECURSIVE SplitLines(_)
SplitLines(text) ==
    IF \A i \in 1..Len(text) : text[i] # "[newline]" THEN <<text>>
    ELSE LET i == CHOOSE j \in 1..Len(text) :
                      text[j] = "[newline]" /\ \A m \in 1..(j - 1) : text[m] # "[newline]"
         IN  <<SubSeq(text, 1, i - 1)>> \o SplitLines(SubSeq(text, i + 1, Len(text)))

\* text.strip(); whitespace is the token " ".
RECURSIVE LStrip(_)
LStrip(text) == IF Len(text) > 0 /\ text[1] = " " THEN LStrip(Tail(text)) ELSE text

RECURSIVE RStrip(_)
RStrip(text) ==
    IF Len(text) > 0 /\ text[Len(text)] = " " THEN RStrip(SubSeq(text, 1, Len(text) - 1))
    ELSE text

Strip(text) == LStrip(RStrip(text))

\* [bullet.strip() for bullet in bullets_text.split('\n') if bullet.strip()]
RECURSIVE StrippedLines(_)
StrippedLines(lines) ==
    IF Len(lines) = 0 THEN <<>>
    ELSE (IF Len(Strip(lines[1])) > 0 THEN <<JStr(Strip(lines[1]))>> ELSE <<>>)
             \o StrippedLines(Tail(lines))

\* ------------------------------------------------------- SimpleAIGenerator
\* The text-generation service as one call sees it: the call raises (the
\* import, the connection, the key or choices[0] fails), or it answers with
\* message.content = content (None or a str).
ServiceRaises == [raises |-> TRUE, content |-> JNull]

ServiceAnswers(content) == [raises |-> FALSE, content |-> content]

SummaryTemplate(job_title, years_experience, industry) ==
    JStr(<<"Experienced ">> \o Format(job_title) \o <<" with ">>
             \o Format(years_experience) \o <<" years in ">> \o Format(industry)
             \o <<". Proven track record of delivering results and contributing to organizational success.">>)

ShortSummaryTemplate(job_title, years_experience, industry) ==
    JStr(<<"Experienced ">> \o Format(job_title) \o <<" with ">>
             \o Format(years_experience) \o <<" years in ">> \o Format(industry)
             \o <<".">>)

generate_professional_summary(api_key, job_title, years_experience, industry, service) ==
    IF ~Truthy(api_key) THEN SummaryTemplate(job_title, years_experience, industry)
    ELSE IF service.raises THEN SummaryTemplate(job_title, years_experience, industry)
    ELSE IF Truthy(service.content) THEN JStr(Strip(service.content.v))
    ELSE ShortSummaryTemplate(job_title, years_experience, industry)

TemplateBullets(job_title, company) ==
    JList(<<JStr(<<"Performed key responsibilities as ">> \o Format(job_title)),
            JStr(<<"Contributed to ">> \o Format(company)
                     \o <<"'s operational excellence">>),
            S("Collaborated with cross-functional teams"),
            S("Achieved measurable results and improvements")>>)

SingleBullet(job_title) ==
    JList(<<JStr(<<"Performed key responsibilities as ">> \o Format(job_title))>>)

\* text.lstrip(chars); the list markers are the tokens "-", "*", "[bullet]".
RECURSIVE LStripMarkers(_)
LStripMarkers(text) ==
    IF Len(text) > 0 /\ text[1] \in {"-", "*", "[bullet]"} THEN LStripMarkers(Tail(text))
    ELSE text

\* [line.strip().lstrip(markers).strip() for line in lines if line.strip()]
RECURSIVE CleanLines(_)
CleanLines(lines) ==
    IF Len(lines) = 0 THEN <<>>
    ELSE (IF Len(Strip(lines[1])) > 0
          THEN <<JStr(Strip(LStripMarkers(Strip(lines[1]))))>> ELSE <<>>)
             \o CleanLines(Tail(lines))

generate_bullet_points(api_key, job_title, company, job_description, service) ==
    IF ~Truthy(api_key) THEN TemplateBullets(job_title, company)
    ELSE IF service.raises THEN TemplateBullets(job_title, company)
    ELSE IF Truthy(service.content)
    THEN LET bullets == CleanLines(SplitLines(service.content.v))
         IN  IF Len(bullets) > 0
             THEN JList(SubSeq(bullets, 1, IF Len(bullets) < 6 THEN Len(bullets) ELSE 6))
             ELSE SingleBullet(job_title)
    ELSE SingleBullet(job_title)

\* -------------------------------------------------------------- UserManager
\* json.dump and json.load: a dict is written as an object, a list as an
\* array, a str as a string, an int as a number, None as null, and read back
\* the other way.
RECURSIVE JsonDump(_), DumpPairs(_), DumpItems(_)
JsonDump(x) ==
    CASE x.t = "dict" -> [j |-> "object", v |-> DumpPairs(x.v)]
      [] x.t = "list" -> [j |-> "array", v |-> DumpItems(x.v)]
      [] x.t = "str" -> [j |-> "string", v |-> x.v]
      [] x.t = "num" -> [j |-> "number", v |-> x.v]
      [] OTHER -> [j |-> "null", v |-> 0]

DumpPairs(pairs) ==
    IF Len(pairs) = 0 THEN <<>>
    ELSE << <<pairs[1][1], JsonDump(pairs[1][2])>> >> \o DumpPairs(Tail(pairs))

DumpItems(items) ==
    IF Len(items) = 0 THEN <<>> ELSE <<JsonDump(items[1])>> \o DumpItems(Tail(items))

RECURSIVE JsonLoad(_), LoadPairs(_), LoadItems(_)
JsonLoad(text) ==
    CASE text.j = "object" -> JDict(LoadPairs(text.v))
      [] text.j = "array" -> JList(LoadItems(text.v))
      [] text.j = "string" -> JStr(text.v)
      [] text.j = "number" -> JNum(text.v)
      [] OTHER -> JNull

LoadPairs(pairs) ==
    IF Len(pairs) = 0 THEN <<>>
    ELSE << <<pairs[1][1], JsonLoad(pairs[1][2])>> >> \o LoadPairs(Tail(pairs))

LoadItems(items) ==
    IF Len(items) = 0 THEN <<>> ELSE <<JsonLoad(items[1])>> \o LoadItems(Tail(items))

\* users.json: not there, holding a JSON text, or holding what a write that
\* failed after open(..., 'w') left behind (empty or cut short: not JSON).
MissingFile == [state |-> "missing", text |-> JsonDump(JNull)]

CorruptFile == [state |-> "corrupt", text |-> JsonDump(JNull)]

TextFile(text) == [state |-> "text", text |-> text]

\* read_fails: open or read raises although the file is there.
load_users(file, read_fails) ==
    IF file.state = "missing" THEN JDict(<<>>)
    ELSE IF read_fails \/ file.state = "corrupt" THEN JDict(<<>>)
    ELSE JsonLoad(file.text)

\* write: "ok", "open fails" (the file is left as it was) or "dump fails"
\* (the file was truncated by open and the text is incomplete). The exception
\* is swallowed either way.
save_users(file, users, write) ==
    CASE write = "ok" -> TextFile(JsonDump(users))
      [] write = "open fails" -> file
      [] OTHER -> CorruptFile

\* hashlib.sha256(password.encode()).hexdigest()
hash_password(password) == JStr(<<"sha256(", password, ")">>)

\* datetime.now().isoformat(); the stamps are written and never read.
Now == S("2026-01-01T09:00:00")

\* register_user, users[username] = {...}: the mapping handed to save_users.
WithUser(users, username, password, email) ==
    SetKey(users, username,
           JDict(<< <<"password", hash_password(password)>>,
                    <<"email", JStr(<<email>>)>>,
                    <<"created_at", Now>>,
                    <<"resumes", JDict(<<>>)>> >>))

\* save_user_resume, users[username]['resumes'][resume_name] = {...}: the
\* mapping handed to save_users.
WithResume(users, username, resume_data, resume_name) ==
    LET user == IF HasKey(Lookup(users, username), "resumes")
                THEN Lookup(users, username)
                ELSE SetKey(Lookup(users, username), "resumes", JDict(<<>>))
        entry == JDict(<< <<"data", resume_data>>, <<"last_updated", Now>> >>)
    IN  SetKey(users, username,
               SetKey(user, "resumes",
                      SetKey(Lookup(user, "resumes"), resume_name, entry)))

\* The calls return <<value returned, users.json after the call>>.
register_user(file, username, password, email, read_fails, write) ==
    LET users == load_users(file, read_fails)
    IN  IF HasKey(users, username) THEN << <<FALSE, "Username already exists">>, file>>
        ELSE << <<TRUE, "Registration successful">>,
                save_users(file, WithUser(users, username, password, email), write) >>

login_user(file, username, password, read_fails) ==
    LET users == load_users(file, read_fails)
    IN  IF HasKey(users, username)
           /\ Lookup(Lookup(users, username), "password") = hash_password(password)
        THEN <<TRUE, "Login successful">>
        ELSE <<FALSE, "Invalid credentials">>

save_user_resume(file, username, resume_data, resume_name, read_fails, write) ==
    LET users == load_users(file, read_fails)
    IN  IF HasKey(users, username)
        THEN <<TRUE,
               save_users(file, WithResume(users, username, resume_data, resume_name),
                          write)>>
        ELSE <<FALSE, file>>

load_user_resume(file, username, resume_name, read_fails) ==
    LET users == load_users(file, read_fails)
    IN  IF /\ HasKey(users, username)
           /\ HasKey(Lookup(users, username), "resumes")
           /\ HasKey(Lookup(Lookup(users, username), "resumes"), resume_name)
        THEN Lookup(Lookup(Lookup(Lookup(users, username), "resumes"), resume_name), "data")
        ELSE JNull

get_user_resumes(file, username, read_fails) ==
    LET users == load_users(file, read_fails)
    IN  IF HasKey(users, username) /\ HasKey(Lookup(users, username), "resumes")
        THEN LET resumes == Lookup(Lookup(users, username), "resumes").v
             IN  [i \in 1..Len(resumes) |-> resumes[i][1]]
        ELSE <<>>

\* ------------------------------------------------------ the builder page
\* main, progress computation: resume_data['personal'].get, resume_data.get
\* and len() of the three collections must all succeed for the builder page
\* to be drawn at all.
BuilderRenders(d) ==
    /\ d.t = "dict"
    /\ \E i \in 1..Len(d.v) : d.v[i][1] = "personal" /\ d.v[i][2].t = "dict"
    /\ \A i \in 1..Len(d.v) :
           d.v[i][1] \in {"work_experience", "education", "skills"} =>
               d.v[i][2].t \in {"str", "list", "dict"}

\* The display loops read these keys with [] before they draw Delete.
ExpDisplays(exp) ==
    /\ exp.t = "dict"
    /\ \A k \in {"job_title", "company", "location", "start_date", "end_date", "bullets"} :
           HasKey(exp, k)
    /\ Truthy(Lookup(exp, "bullets")) => IterErr(Lookup(exp, "bullets")) = NoErr

EduDisplays(edu) ==
    /\ edu.t = "dict"
    /\ \A k \in {"degree", "school", "major", "graduation_date", "gpa", "honors"} :
           HasKey(edu, k)

\* list.pop(i): i counts from 0, a negative i counts from the end; the list
\* is returned unchanged where Python raises IndexError.
Pop_Last(items, i) == SubSeq(items, 1, Len(items) - 1)

Pop(items, i) ==
    LET k == IF i < 0 THEN Len(items) + i + 1 ELSE i + 1
    IN  IF k \in 1..Len(items)
        THEN SubSeq(items, 1, k - 1) \o SubSeq(items, k + 1, Len(items))
        ELSE items

\* The entry the Add Education button builds from the form.
FormEducation(form) ==
    JDict(<< <<"degree", JStr(form.degree)>>, <<"school", JStr(form.school)>>,
             <<"major", JStr(form.major)>>,
             <<"graduation_date", JStr(form.graduation_date)>>,
             <<"gpa", JStr(form.gpa)>>, <<"honors", JStr(form.honors)>> >>)

\* ------------------------------------------------------------------ inputs
\* A key left out of a mapping.
Absent == [t |-> "absent", v |-> 0]

Field(k, x) == IF x.t = "absent" THEN <<>> ELSE << <<k, x>> >>

MkDoc(p, s, w, e, k) ==
    JDict(Field("personal", p) \o Field("summary", s) \o Field("work_experience", w)
              \o Field("education", e) \o Field("skills", k))

Person(name, email) ==
    JDict(<< <<"full_name", name>>, <<"email", email>>, <<"phone", EmptyStr>>,
             <<"location", EmptyStr>>, <<"linkedin", EmptyStr>>, <<"website", EmptyStr>> >>)

Exp(end_date, bullets, location) ==
    JDict(<< <<"job_title", S("Engineer")>>, <<"company", S("Acme")>> >>
              \o Field("location", location) \o << <<"start_date", S("01/2020")>> >>
              \o Field("end_date", end_date) \o Field("bullets", bullets))

Edu(major, graduation_date) ==
    JDict(<< <<"degree", S("BSc")>>, <<"school", S("MIT")>> >>
              \o Field("major", major) \o Field("graduation_date", graduation_date))

Jane == S("Jane Doe")

ScriptName == JStr(<<"<", "script", ">">>)

JaneMail == S("jane@x.com")

JanePhone == S("555-0100")

JaneLinkedin == S("linkedin.com/in/jane")

JaneSite == S("jane.dev")

StdSummary == S("Seasoned engineer")

StdExp == Exp(S("12/2021"), JList(<<S("Shipped X")>>), Absent)

StdEdu == Edu(S("Physics"), S("2019"))

StdSkills == JDict(<< <<"Languages", JList(<<S("Python"), S("Go")>>)>> >>)

TwoBullets == JList(<<S("Led team of 5"), S("Cut costs 20%")>>)

PersonalVariants ==
    {Person(n, e) : n \in {EmptyStr, Jane, ScriptName}, e \in {EmptyStr, JaneMail}}
        \cup {JDict(<< <<"full_name", Jane>> >>),
              JDict(<< <<"full_name", Jane>>, <<"email", JaneMail>> >>),
              JDict(<<>>), Absent, Jane}
        \cup {SetKey(Person(Jane, JaneMail), "linkedin", JaneLinkedin),
              SetKey(Person(Jane, JaneMail), "website", JaneSite),
              SetKey(SetKey(Person(Jane, JaneMail), "phone", JanePhone),
                     "location", S("Cape Town")),
              SetKey(Person(EmptyStr, EmptyStr), "phone", JanePhone),
              SetKey(Person(Jane, EmptyStr), "location", S("Cape Town")),
              SetKey(SetKey(SetKey(SetKey(Person(Jane, JaneMail), "phone", JanePhone),
                                   "location", S("Cape Town")),
                            "linkedin", JaneLinkedin), "website", JaneSite)}

SummaryVariants == {Absent, EmptyStr, StdSummary}

ExpVariants ==
    {Exp(e, TwoBullets, Absent) : e \in {Absent, EmptyStr, S("12/2021"), S("Present")}}
        \cup {Exp(S("12/2021"), b, Absent) :
                  b \in {Absent, JList(<<>>), JList(<<S("Shipped X")>>)}}
        \cup {Exp(EmptyStr, JList(<<S("Shipped X")>>), Absent),
              Exp(S("12/2021"), TwoBullets, S("Remote")),
              Exp(S("12/2021"), TwoBullets, EmptyStr)}

WorkVariants ==
    {Absent, JList(<<>>)} \cup {JList(<<x>>) : x \in ExpVariants}
        \cup {JList(<<StdExp, Exp(EmptyStr, TwoBullets, Absent)>>),
              JList(<<SetKey(StdExp, "job_title", S("Manager")), StdExp>>),
              S("abc"), JList(<<S("abc")>>), JNum(5),
              JList(<<Exp(EmptyStr, JNum(3), Absent)>>)}

EducationVariants ==
    {Absent, JList(<<>>), JNum(3),
     JList(<<SetKey(StdEdu, "degree", S("MSc")), StdEdu>>)}
        \cup {JList(<<Edu(m, g)>>) : m \in {Absent, EmptyStr, S("Physics")},
                                    g \in {EmptyStr, S("2019")}}

SkillsVariants ==
    {Absent, JDict(<<>>), StdSkills,
     JDict(<< <<"Languages", JList(<<>>)>> >>),
     JDict(<< <<"Languages", JList(<<>>)>>, <<"Tools", JList(<<S("Git")>>)>> >>),
     JDict(<< <<"Languages", JList(<<S("Python")>>)>>, <<"Tools", JList(<<>>)>> >>),
     JDict(<< <<"Languages", JList(<<>>)>>, <<"Tools", JList(<<>>)>> >>),
     JDict(<< <<"Languages", JNum(5)>> >>),
     JList(<<S("Python")>>)}

\* The documents around which one section is varied.
SparseBase ==
    [p |-> Person(Jane, JaneMail), s |-> EmptyStr, w |-> JList(<<>>),
     e |-> JList(<<>>), k |-> JDict(<<>>)]

FullBase ==
    [p |-> Person(Jane, JaneMail), s |-> StdSummary, w |-> JList(<<StdExp>>),
     e |-> JList(<<StdEdu>>), k |-> StdSkills]

\* The JSON values the file uploader is given.
UploadDocs ==
    {MkDoc(p, s, w, e, k) : p \in {Person(EmptyStr, JaneMail), Person(Jane, JaneMail)},
                            s \in {EmptyStr, StdSummary},
                            w \in {JList(<<>>), JList(<<StdExp>>)},
                            e \in {JList(<<>>), JList(<<StdEdu>>)},
                            k \in {JDict(<<>>), StdSkills}}
        \cup {MkDoc(p, b.s, b.w, b.e, b.k) : p \in PersonalVariants, b \in {FullBase}}
        \cup {MkDoc(b.p, s, b.w, b.e, b.k) : s \in SummaryVariants, b \in {FullBase}}
        \cup {MkDoc(b.p, b.s, w, b.e, b.k) : w \in WorkVariants, b \in {SparseBase, FullBase}}
        \cup {MkDoc(b.p, b.s, b.w, e, b.k) : e \in EducationVariants, b \in {FullBase}}
        \cup {MkDoc(b.p, b.s, b.w, b.e, k) : k \in SkillsVariants, b \in {SparseBase, FullBase}}
        \cup {JList(<<>>), S("resume")}

\* What is typed into the Add Experience form.
ExperienceForms ==
    {[job_title |-> <<"Engineer">>, company |-> <<"Acme">>, location |-> <<>>,
      start_date |-> <<"01/2020">>, current_job |-> FALSE, end_date |-> <<>>,
      bullets_text |-> <<" ", "Led team of 5", "[newline]", " ", "[newline]",
                         "Cut costs 20%", " ">>],
     [job_title |-> <<"Manager">>, company |-> <<"Acme">>, location |-> <<"Remote">>,
      start_date |-> <<"01/2020">>, current_job |-> TRUE, end_date |-> <<>>,
      bullets_text |-> <<>>],
     [job_title |-> <<"Analyst">>, company |-> <<"Acme">>, location |-> <<>>,
      start_date |-> <<"01/2020">>, current_job |-> FALSE, end_date |-> <<"12/2021">>,
      bullets_text |-> <<"Shipped X">>],
     [job_title |-> <<>>, company |-> <<"Acme">>, location |-> <<>>,
      start_date |-> <<"01/2020">>, current_job |-> FALSE, end_date |-> <<>>,
      bullets_text |-> <<>>]}

\* The object passed as resume_data, as the call leaves it. The renderers
\* are handed the session's dict itself; they read it with get(), [] and
\* iteration and have no assignment, append, pop, setdefault or sort on it.
PdfArgumentAfter_SetDefault(resume_data) ==
    IF resume_data.t = "dict" /\ ~HasKey(resume_data, "work_experience")
    THEN SetKey(resume_data, "work_experience", JList(<<>>))
    ELSE resume_data

PdfArgumentAfter(resume_data) == resume_data

DocxArgumentAfter(resume_data) == resume_data

HtmlArgumentAfter(resume_data) == resume_data

\* What OPENAI_API_KEY holds when a generator is constructed.
ApiKeys == {JNull, EmptyStr, S("sk-test")}

\* What the service does with one request.
ServiceOutcomes ==
    {ServiceRaises}
        \cup {ServiceAnswers(c) :
                  c \in {JNull, EmptyStr, JStr(<<" ">>),
                         JStr(<<" ", "Seasoned engineer who ships.", " ">>),
                         JStr(<<"-", " ", "Led team of 5", "[newline]", " ", "[newline]",
                                "*", " ", "Cut costs 20%">>)}}

TargetJobTitles == {S("Engineer"), S("Nurse"), EmptyStr}

Industries == {"Technology", "Finance"}

Companies == {"Acme", "Initech"}

YearsOfExperience == {0, 7}

Usernames == {"alice", "bob"}

Passwords == {"pw1", "pw2"}

EmailOf(username) == IF username = "alice" THEN "alice@x.com" ELSE "bob@x.com"

ResumeNames == {"default", "My Resume"}

\* The documents handed to save_user_resume.
DraftDoc == MkDoc(Absent, S("draft"), Absent, Absent, Absent)

JaneDoc == MkDoc(Person(Jane, JaneMail), StdSummary, JList(<<StdExp>>), Absent, Absent)

SavedDocs == {DraftDoc, JaneDoc}

\* <<username, password>> of the registrations tried.
Registrations == {<<"alice", "pw1">>, <<"alice", "pw2">>, <<"bob", "pw1">>}

\* <<username, resume_name, resume_data>> of the saves tried.
Saves ==
    {<<"alice", n, d>> : n \in ResumeNames, d \in SavedDocs}
        \cup {<<"bob", "default", DraftDoc>>}

WriteOutcomes == {"ok", "open fails", "dump fails"}

\* <<username, resume_name, resume_data>> of the resumes stored for a user
\* before the sidebar offers Load and Save.
FirstSaves == {<<"alice", "default", JaneDoc>>}

\* <<username, password>> of the accounts created in the session.
SessionRegistrations == {<<"alice", "pw1">>, <<"bob", "pw1">>}

\* The JSON values uploaded in a session that logs in and out.
SessionUploads ==
    {MkDoc(FullBase.p, FullBase.s, FullBase.w, FullBase.e, FullBase.k),
     JList(<<S("abc")>>)}

\* <<username, password>> and <<username, resume_name, resume_data>> of the
\* calls two sessions make at the same time.
OverlappingRegistrations == {<<"alice", "pw1">>, <<"bob", "pw1">>}

OverlappingSaves == {<<"alice", "default", DraftDoc>>}

\* What is typed into the Add Education form.
EducationForms ==
    {[degree |-> <<"MSc">>, school |-> <<"MIT">>, major |-> <<"Physics">>,
      graduation_date |-> <<"2021">>, gpa |-> <<>>, honors |-> <<>>],
     [degree |-> <<"BSc">>, school |-> <<"UCT">>, major |-> <<>>,
      graduation_date |-> <<>>, gpa |-> <<"3.8">>, honors |-> <<"cum laude">>],
     [degree |-> <<>>, school |-> <<"MIT">>, major |-> <<>>,
      graduation_date |-> <<>>, gpa |-> <<>>, honors |-> <<>>]}

\* ----------------------------------------------------------- state machine
VARIABLES resume_data, pdf_data, docx_data, html_data, ai_call, users_file, store_call,
          last_edit, user_authenticated, current_user, session_op, pending, last_done

vars ==
    <<resume_data, pdf_data, docx_data, html_data, ai_call, users_file, store_call,
      last_edit, user_authenticated, current_user, session_op, pending, last_done>>

session_vars == <<user_authenticated, current_user>>

call_vars == <<pending, last_done>>

\* What the renderers, the generator and a UserManager call leave alone.
ui_vars == <<session_vars, session_op, call_vars>>

render_vars == <<resume_data, pdf_data, docx_data, html_data>>

store_vars == <<users_file, store_call>>

\* No entry has been added or deleted since the document was set.
NoEdit == [op |-> "none", i |-> 0, before |-> <<>>]

\* st.session_state.current_user: None, or the username logged in with.
None == <<>>

Some(username) == <<username>>

\* The button of render_authentication pressed last, and what the call it
\* made on the UserManager returned.
SessionOp(op, username, success) == [op |-> op, username |-> username, success |-> success]

NoSessionOp == SessionOp("none", "", FALSE)

\* The browser sessions whose calls on the user store can overlap.
Sessions == {1, 2}

\* A session that is not inside register_user or save_user_resume.
NoCallArgs ==
    [fn |-> "none", username |-> "", password |-> "", resume_name |-> "",
     resume_data |-> JNull, users |-> JNull]

NoPending == [call |-> NoCallArgs, fn |-> "none", overlapped |-> {}]

\* No register_user or save_user_resume call has returned yet.
NoDone == [call |-> NoCallArgs, success |-> FALSE, overlapped |-> {}]

\* No call has been made on the user store.
NoStoreCall ==
    [fn |-> "none", username |-> "", password |-> "", resume_name |-> "",
     resume_data |-> JNull, read_fails |-> FALSE, write |-> "ok", before |-> MissingFile,
     ret |-> JNull]

\* The generator has not been called.
NoGeneration ==
    [fn |-> "none", api_key |-> JNull, job_title |-> EmptyStr, years_experience |-> JNum(0),
     industry |-> EmptyStr, company |-> EmptyStr, service |-> ServiceRaises,
     result |-> JNull]

\* No export of the current document has been made.
NoCall ==
    [ok |-> FALSE, value |-> <<>>, exc |-> "no call", msg |-> <<>>, cause |-> "none",
     partial |-> <<>>]

\* initialize_session_state
Init ==
    /\ resume_data =
           JDict(<< <<"personal", Person(EmptyStr, EmptyStr)>>, <<"summary", EmptyStr>>,
                    <<"work_experience", JList(<<>>)>>, <<"education", JList(<<>>)>>,
                    <<"skills", JDict(<<>>)>>, <<"projects", JList(<<>>)>>,
                    <<"certifications", JList(<<>>)>> >>)
    /\ pdf_data = NoCall
    /\ docx_data = NoCall
    /\ html_data = NoCall
    /\ ai_call = NoGeneration
    /\ users_file = MissingFile
    /\ store_call = NoStoreCall
    /\ last_edit = NoEdit
    /\ user_authenticated = FALSE
    /\ current_user = None
    /\ session_op = NoSessionOp
    /\ pending = [s \in Sessions |-> NoPending]
    /\ last_done = NoDone

\* render_export, Import Data: the uploaded JSON value replaces the document.
ImportData(uploaded) ==
    /\ BuilderRenders(resume_data)
    /\ resume_data' = uploaded
    /\ pdf_data' = NoCall
    /\ docx_data' = NoCall
    /\ html_data' = NoCall
    /\ last_edit' = NoEdit
    /\ UNCHANGED <<ai_call, store_vars, ui_vars>>

\* The entry the Add Experience button builds from the form.
FormExperience(form) ==
    JDict(<< <<"job_title", JStr(form.job_title)>>, <<"company", JStr(form.company)>>,
             <<"location", JStr(form.location)>>, <<"start_date", JStr(form.start_date)>>,
             <<"end_date", IF form.current_job THEN S("Present") ELSE JStr(form.end_date)>>,
             <<"current", JNum(IF form.current_job THEN 1 ELSE 0)>>,
             <<"bullets", JList(StrippedLines(SplitLines(form.bullets_text)))>> >>)

\* render_work_experience, Add Experience.
AddExperience(form) ==
    /\ BuilderRenders(resume_data)
    /\ Get(resume_data, "work_experience", JList(<<>>)).t = "list"
    /\ Len(Get(resume_data, "work_experience", JList(<<>>)).v) < MaxEntries
    /\ Len(form.job_title) > 0 /\ Len(form.company) > 0
    /\ resume_data' =
           SetKey(resume_data, "work_experience",
                  JList(Append(Get(resume_data, "work_experience", JList(<<>>)).v,
                               FormExperience(form))))
    /\ last_edit' = [op |-> "add_exp", i |-> 0,
                     before |-> Get(resume_data, "work_experience", JList(<<>>)).v]
    /\ pdf_data' = NoCall
    /\ docx_data' = NoCall
    /\ html_data' = NoCall
    /\ UNCHANGED <<ai_call, store_vars, ui_vars>>

\* Quick Export: Export PDF
ExportPdf(buildFails) ==
    /\ pdf_data' = export_to_pdf(resume_data, buildFails)
    /\ resume_data' = PdfArgumentAfter(resume_data)
    /\ UNCHANGED <<docx_data, html_data, ai_call, store_vars, last_edit, ui_vars>>

\* Quick Export: Export DOCX
ExportDocx(saveFails) ==
    /\ docx_data' = export_to_docx(resume_data, saveFails)
    /\ resume_data' = DocxArgumentAfter(resume_data)
    /\ UNCHANGED <<pdf_data, html_data, ai_call, store_vars, last_edit, ui_vars>>

\* Quick Export: Export HTML
ExportHtml ==
    /\ html_data' = export_to_html(resume_data)
    /\ resume_data' = HtmlArgumentAfter(resume_data)
    /\ UNCHANGED <<pdf_data, docx_data, ai_call, store_vars, last_edit, ui_vars>>

Next ==
    \/ \E uploaded \in UploadDocs : ImportData(uploaded)
    \/ \E form \in ExperienceForms : AddExperience(form)
    \/ \E buildFails \in BOOLEAN : ExportPdf(buildFails)
    \/ \E saveFails \in BOOLEAN : ExportDocx(saveFails)
    \/ ExportHtml

Spec == Init /\ [][Next]_vars

\* render_professional_summary, Generate AI Summary: the summary the generator
\* returns replaces the document's.
GenerateSummary(api_key, job_title, years_experience, industry, service) ==
    /\ Truthy(job_title)
    /\ resume_data.t = "dict"
    /\ LET summary == generate_professional_summary(api_key, job_title, years_experience,
                                                    industry, service)
       IN  /\ ai_call' = [fn |-> "summary", api_key |-> api_key, job_title |-> job_title,
                          years_experience |-> years_experience, industry |-> industry,
                          company |-> EmptyStr, service |-> service, result |-> summary]
           /\ resume_data' = SetKey(resume_data, "summary", summary)
    /\ pdf_data' = NoCall
    /\ docx_data' = NoCall
    /\ html_data' = NoCall
    /\ last_edit' = NoEdit
    /\ UNCHANGED <<store_vars, ui_vars>>

\* A call of generate_bullet_points.
GenerateBullets(api_key, job_title, company, job_description, service) ==
    /\ ai_call' = [fn |-> "bullets", api_key |-> api_key, job_title |-> job_title,
                   years_experience |-> JNum(0), industry |-> EmptyStr,
                   company |-> company, service |-> service,
                   result |-> generate_bullet_points(api_key, job_title, company,
                                                     job_description, service)]
    /\ UNCHANGED <<render_vars, store_vars, last_edit, ui_vars>>

AINext ==
    \/ \E api_key \in ApiKeys, job_title \in TargetJobTitles, years \in YearsOfExperience,
          industry \in Industries, service \in ServiceOutcomes :
           GenerateSummary(api_key, job_title, JNum(years), S(industry), service)
    \/ \E api_key \in ApiKeys, job_title \in TargetJobTitles, company \in Companies,
          service \in ServiceOutcomes :
           GenerateBullets(api_key, job_title, S(company), S("Builds services"), service)

AISpec == Init /\ [][AINext]_vars

\* render_work_experience, Delete on the entry displayed at position i
\* (enumerate counts from 0). The button is drawn once the page and the
\* entries up to it have been drawn.
DeleteExperience(i) ==
    /\ BuilderRenders(resume_data)
    /\ Get(resume_data, "work_experience", JList(<<>>)).t = "list"
    /\ LET work == Get(resume_data, "work_experience", JList(<<>>)).v
       IN  /\ i \in 0..(Len(work) - 1)
           /\ \A j \in 1..(i + 1) : ExpDisplays(work[j])
           /\ resume_data' = SetKey(resume_data, "work_experience", JList(Pop(work, i)))
           /\ last_edit' = [op |-> "delete_exp", i |-> i, before |-> work]
    /\ pdf_data' = NoCall
    /\ docx_data' = NoCall
    /\ html_data' = NoCall
    /\ UNCHANGED <<ai_call, store_vars, ui_vars>>

\* render_education, Add Education.
AddEducation(form) ==
    /\ BuilderRenders(resume_data)
    /\ Get(resume_data, "education", JList(<<>>)).t = "list"
    /\ Len(Get(resume_data, "education", JList(<<>>)).v) < MaxEntries
    /\ Len(form.degree) > 0 /\ Len(form.school) > 0
    /\ resume_data' =
           SetKey(resume_data, "education",
                  JList(Append(Get(resume_data, "education", JList(<<>>)).v,
                               FormEducation(form))))
    /\ last_edit' = [op |-> "add_edu", i |-> 0,
                     before |-> Get(resume_data, "education", JList(<<>>)).v]
    /\ pdf_data' = NoCall
    /\ docx_data' = NoCall
    /\ html_data' = NoCall
    /\ UNCHANGED <<ai_call, store_vars, ui_vars>>

\* render_education, Delete on the entry displayed at position i.
DeleteEducation(i) ==
    /\ BuilderRenders(resume_data)
    /\ Get(resume_data, "education", JList(<<>>)).t = "list"
    /\ LET education == Get(resume_data, "education", JList(<<>>)).v
       IN  /\ i \in 0..(Len(education) - 1)
           /\ \A j \in 1..(i + 1) : EduDisplays(education[j])
           /\ resume_data' = SetKey(resume_data, "education", JList(Pop(education, i)))
           /\ last_edit' = [op |-> "delete_edu", i |-> i, before |-> education]
    /\ pdf_data' = NoCall
    /\ docx_data' = NoCall
    /\ html_data' = NoCall
    /\ UNCHANGED <<ai_call, store_vars, ui_vars>>

\* The uploads after which entries are added and deleted: documents this
\* program exported earlier, and one whose entry lacks the displayed keys.
EditUploads ==
    {MkDoc(FullBase.p, FullBase.s, w, e, FullBase.k) :
         w \in {JList(<<StdExp>>)}
                \cup {JList(<<FormExperience(form), StdExp>>) :
                          form \in {f \in ExperienceForms : f.current_job}},
         e \in {JList(<<>>), JList(<<StdEdu>>)}}

EditNext ==
    \/ \E uploaded \in EditUploads : ImportData(uploaded)
    \/ \E form \in ExperienceForms : AddExperience(form)
    \/ \E i \in 0..(MaxEntries - 1) : DeleteExperience(i)
    \/ \E form \in EducationForms : AddEducation(form)
    \/ \E i \in 0..(MaxEntries - 1) : DeleteEducation(i)

EditSpec == Init /\ [][EditNext]_vars

\* The calls made on a UserManager; each reads users.json anew.
StoreCall(fn, username, password, resume_name, saved, read_fails, write, ret) ==
    [fn |-> fn, username |-> username, password |-> password, resume_name |-> resume_name,
     resume_data |-> saved, read_fails |-> read_fails, write |-> write,
     before |-> users_file, ret |-> ret]

RegisterUser(username, password, read_fails, write) ==
    LET out == register_user(users_file, username, password, EmailOf(username),
                             read_fails, write)
    IN  /\ users_file' = out[2]
        /\ store_call' = StoreCall("register", username, password, "", JNull,
                                   read_fails, write, out[1])
        /\ UNCHANGED <<render_vars, ai_call, last_edit, ui_vars>>

LoginUser(username, password, read_fails) ==
    /\ store_call' = StoreCall("login", username, password, "", JNull, read_fails, "ok",
                               login_user(users_file, username, password, read_fails))
    /\ UNCHANGED <<render_vars, ai_call, users_file, last_edit, ui_vars>>

SaveUserResume(username, saved, resume_name, read_fails, write) ==
    LET out == save_user_resume(users_file, username, saved, resume_name,
                                read_fails, write)
    IN  /\ users_file' = out[2]
        /\ store_call' = StoreCall("save", username, "", resume_name, saved,
                                   read_fails, write, out[1])
        /\ UNCHANGED <<render_vars, ai_call, last_edit, ui_vars>>

LoadUserResume(username, resume_name, read_fails) ==
    /\ store_call' = StoreCall("load", username, "", resume_name, JNull, read_fails, "ok",
                               load_user_resume(users_file, username, resume_name,
                                                read_fails))
    /\ UNCHANGED <<render_vars, ai_call, users_file, last_edit, ui_vars>>

GetUserResumes(username, read_fails) ==
    /\ store_call' = StoreCall("list", username, "", "", JNull, read_fails, "ok",
                               get_user_resumes(users_file, username, read_fails))
    /\ UNCHANGED <<render_vars, ai_call, users_file, last_edit, ui_vars>>

StoreNext ==
    \/ \E reg \in Registrations, read_fails \in BOOLEAN, write \in WriteOutcomes :
           RegisterUser(reg[1], reg[2], read_fails, write)
    \/ \E username \in Usernames, password \in Passwords, read_fails \in BOOLEAN :
           LoginUser(username, password, read_fails)
    \/ \E save \in Saves, read_fails \in BOOLEAN, write \in WriteOutcomes :
           SaveUserResume(save[1], save[3], save[2], read_fails, write)
    \/ \E username \in Usernames, resume_name \in ResumeNames, read_fails \in BOOLEAN :
           LoadUserResume(username, resume_name, read_fails)
    \/ \E username \in Usernames, read_fails \in BOOLEAN :
           GetUserResumes(username, read_fails)

StoreSpec == Init /\ [][StoreNext]_vars

\* Two sessions are two script threads with a UserManager each and one
\* users.json; nothing in UserManager locks the file. A call is a load_users,
\* a change of the loaded mapping and a save_users, and the other session can
\* run between the load and the save. The save (open and dump) is taken as
\* one step here.
PendingCall(fn, username, password, resume_name, saved, users) ==
    [fn |-> fn, username |-> username, password |-> password, resume_name |-> resume_name,
     resume_data |-> saved, users |-> users]

\* What a call changes: a user's record, or one resume of a user.
Target(call) ==
    IF call.fn = "register" THEN <<call.username>> ELSE <<call.username, call.resume_name>>

\* register_user up to the point where save_users is called.
RegisterLoads(s, username, password) ==
    /\ pending[s].fn = "none"
    /\ LET users == load_users(users_file, FALSE)
       IN  IF HasKey(users, username)
           THEN /\ last_done' =
                       [call |-> PendingCall("register", username, password, "", JNull, JNull),
                        success |-> FALSE, overlapped |-> {}]
                /\ UNCHANGED pending
           ELSE /\ pending' =
                       [pending EXCEPT ![s] =
                           [call |-> PendingCall("register", username, password, "", JNull,
                                                 WithUser(users, username, password,
                                                          EmailOf(username))),
                            fn |-> "register", overlapped |-> {}]]
                /\ UNCHANGED last_done
    /\ UNCHANGED <<render_vars, ai_call, store_vars, last_edit, session_vars, session_op>>

\* save_user_resume up to the point where save_users is called.
SaveLoads(s, username, saved, resume_name) ==
    /\ pending[s].fn = "none"
    /\ LET users == load_users(users_file, FALSE)
       IN  IF HasKey(users, username)
           THEN /\ pending' =
                       [pending EXCEPT ![s] =
                           [call |-> PendingCall("save", username, "", resume_name, saved,
                                                 WithResume(users, username, saved,
                                                            resume_name)),
                            fn |-> "save", overlapped |-> {}]]
                /\ UNCHANGED last_done
           ELSE /\ last_done' =
                       [call |-> PendingCall("save", username, "", resume_name, saved, JNull),
                        success |-> FALSE, overlapped |-> {}]
                /\ UNCHANGED pending
    /\ UNCHANGED <<render_vars, ai_call, store_vars, last_edit, session_vars, session_op>>

\* save_users and the return of True or (True, "Registration successful")
\* by the call session s is in. The
\* calls of the other sessions that are between their load and their save
\* have now been overlapped by this one.
SaveUsersReturns(s) ==
    /\ pending[s].fn # "none"
    /\ users_file' = save_users(users_file, pending[s].call.users, "ok")
    /\ last_done' =
           [call |-> pending[s].call,
            success |-> TRUE,
            overlapped |-> pending[s].overlapped]
    /\ pending' =
           [t \in Sessions |->
               IF t = s THEN NoPending
               ELSE IF pending[t].fn = "none" THEN pending[t]
               ELSE [pending[t] EXCEPT !.overlapped = @ \cup {pending[s].call}]]
    /\ UNCHANGED <<render_vars, ai_call, store_call, last_edit, session_vars, session_op>>

OverlapNext ==
    \/ \E s \in Sessions, reg \in OverlappingRegistrations : RegisterLoads(s, reg[1], reg[2])
    \/ \E s \in Sessions, save \in OverlappingSaves : SaveLoads(s, save[1], save[3], save[2])
    \/ \E s \in Sessions : SaveUsersReturns(s)

OverlapSpec == Init /\ [][OverlapNext]_vars

\* render_authentication, the names listed under "Your Saved Resumes". The
\* list, the Load button and the Save button are drawn only when it is not
\* empty.
SavedResumes == get_user_resumes(users_file, current_user[1], FALSE)

\* render_authentication, Login.
Login(username, password, read_fails) ==
    /\ ~user_authenticated
    /\ IF username # "" /\ password # ""
       THEN LET ret == login_user(users_file, username, password, read_fails)
            IN  /\ store_call' = StoreCall("login", username, password, "", JNull,
                                           read_fails, "ok", ret)
                /\ session_op' = SessionOp("login", username, ret[1])
                /\ IF ret[1]
                   THEN /\ user_authenticated' = TRUE
                        /\ current_user' = Some(username)
                   ELSE UNCHANGED session_vars
       ELSE /\ session_op' = SessionOp("login", username, FALSE)
            /\ UNCHANGED <<store_call, session_vars>>
    /\ UNCHANGED <<render_vars, ai_call, users_file, last_edit, call_vars>>

\* render_authentication, Create Account.
CreateAccount(username, password, confirm_password, write) ==
    /\ ~user_authenticated
    /\ IF username # "" /\ password # "" /\ confirm_password # ""
          /\ password = confirm_password
       THEN LET out == register_user(users_file, username, password, EmailOf(username),
                                     FALSE, write)
            IN  /\ users_file' = out[2]
                /\ store_call' = StoreCall("register", username, password, "", JNull,
                                           FALSE, write, out[1])
                /\ session_op' = SessionOp("create", username, out[1][1])
       ELSE /\ session_op' = SessionOp("create", username, FALSE)
            /\ UNCHANGED store_vars
    /\ UNCHANGED <<render_vars, ai_call, last_edit, session_vars, call_vars>>

Logout_KeepsUser ==
    /\ user_authenticated
    /\ user_authenticated' = FALSE
    /\ session_op' = SessionOp("logout", current_user[1], TRUE)
    /\ UNCHANGED <<render_vars, ai_call, store_vars, last_edit, current_user, call_vars>>

\* render_authentication, Logout.
Logout ==
    /\ user_authenticated
    /\ user_authenticated' = FALSE
    /\ current_user' = None
    /\ session_op' = SessionOp("logout", current_user[1], TRUE)
    /\ UNCHANGED <<render_vars, ai_call, store_vars, last_edit, call_vars>>

\* render_authentication, Load Selected Resume: what load_user_resume
\* returns replaces the document when it is truthy.
LoadSelectedResume(selected_resume, read_fails) ==
    /\ user_authenticated
    /\ \E i \in DOMAIN SavedResumes : SavedResumes[i] = selected_resume
    /\ LET loaded_data == load_user_resume(users_file, current_user[1], selected_resume,
                                           read_fails)
       IN  /\ store_call' = StoreCall("load", current_user[1], "", selected_resume, JNull,
                                      read_fails, "ok", loaded_data)
           /\ session_op' = SessionOp("load", current_user[1], Truthy(loaded_data))
           /\ IF Truthy(loaded_data)
              THEN /\ resume_data' = loaded_data
                   /\ pdf_data' = NoCall
                   /\ docx_data' = NoCall
                   /\ html_data' = NoCall
                   /\ last_edit' = NoEdit
              ELSE UNCHANGED <<render_vars, last_edit>>
    /\ UNCHANGED <<ai_call, users_file, session_vars, call_vars>>

\* render_authentication, Save Current Resume.
SaveCurrentResume(resume_name, write) ==
    /\ user_authenticated
    /\ SavedResumes # <<>>
    /\ IF resume_name # ""
       THEN LET out == save_user_resume(users_file, current_user[1], resume_data,
                                        resume_name, FALSE, write)
            IN  /\ users_file' = out[2]
                /\ store_call' = StoreCall("save", current_user[1], "", resume_name,
                                           resume_data, FALSE, write, out[1])
                /\ session_op' = SessionOp("save", current_user[1], out[1])
       ELSE /\ session_op' = SessionOp("save", current_user[1], FALSE)
            /\ UNCHANGED store_vars
    /\ UNCHANGED <<render_vars, ai_call, last_edit, session_vars, call_vars>>

\* The first resume of a user cannot be saved from the sidebar (the Save
\* button is drawn only when a resume is listed): it is stored by a call of
\* save_user_resume from outside this session.
SessionNext ==
    \/ \E username \in Usernames \cup {""}, password \in Passwords, read_fails \in BOOLEAN :
           Login(username, password, read_fails)
    \/ \E reg \in SessionRegistrations, confirm_password \in Passwords :
           CreateAccount(reg[1], reg[2], confirm_password, "ok")
    \/ Logout
    \/ \E selected_resume \in ResumeNames, read_fails \in BOOLEAN :
           LoadSelectedResume(selected_resume, read_fails)
    \/ \E resume_name \in {"", "default"} : SaveCurrentResume(resume_name, "ok")
    \/ \E save \in FirstSaves : SaveUserResume(save[1], save[3], save[2], FALSE, "ok")
    \/ \E uploaded \in SessionUploads : ImportData(uploaded)
    \/ \E form \in {f \in ExperienceForms : f.current_job} : AddExperience(form)

SessionSpec == Init /\ [][SessionNext]_vars

\* ------------------------------------------------ reading the three outputs
Called(r) == r.exc # "no call"

Results == {pdf_data, docx_data, html_data}

SectionRank(name) ==
    CASE name = "PERSONAL" -> 1
      [] name = "SUMMARY" -> 2
      [] name = "EXPERIENCE" -> 3
      [] name = "EDUCATION" -> 4
      [] name = "SKILLS" -> 5
      [] OTHER -> 0

HeadingSection(title) ==
    CASE title \in {"PROFESSIONAL SUMMARY", "Professional Summary"} -> "SUMMARY"
      [] title \in {"PROFESSIONAL EXPERIENCE", "Professional Experience"} -> "EXPERIENCE"
      [] title \in {"EDUCATION", "Education"} -> "EDUCATION"
      [] title \in {"SKILLS", "Skills"} -> "SKILLS"
      [] OTHER -> ""

\* The section a block of the output opens, "" if it opens none.
PdfMark(story, i) ==
    IF story[i].style = "title" THEN "PERSONAL"
    ELSE IF story[i].style = "heading" THEN HeadingSection(story[i].text[1])
    ELSE ""

DocxIsHeading(para) == Len(para.runs) = 1 /\ para.runs[1].size = 14

DocxMark(paras, i) ==
    IF Len(paras[i].runs) = 1 /\ paras[i].runs[1].size = 18 THEN "PERSONAL"
    ELSE IF DocxIsHeading(paras[i]) THEN HeadingSection(paras[i].runs[1].text[1])
    ELSE ""

HtmlMark(html, i) ==
    IF html[i] = "<div class=header>" THEN "PERSONAL"
    ELSE IF i > 1 /\ html[i - 1] = "<div class=section-title>" THEN HeadingSection(html[i])
    ELSE ""

\* The sections of an output in the order they appear.
PdfSections(story) ==
    SelectSeq([i \in 1..Len(story) |-> PdfMark(story, i)], LAMBDA m : m # "")

DocxSections(paras) ==
    SelectSeq([i \in 1..Len(paras) |-> DocxMark(paras, i)], LAMBDA m : m # "")

HtmlSections(html) ==
    SelectSeq([i \in 1..Len(html) |-> HtmlMark(html, i)], LAMBDA m : m # "")

Range(seq) == {seq[i] : i \in 1..Len(seq)}

Increasing(sections) ==
    \A i \in 1..Len(sections) : \A j \in 1..Len(sections) :
        i < j => SectionRank(sections[i]) < SectionRank(sections[j])

AllReturned == pdf_data.ok /\ docx_data.ok /\ html_data.ok

\* The tokens from position i + 1 to the next closing tag.
InnerAt(html, i) ==
    LET j == CHOOSE n \in (i + 1)..Len(html) :
                 html[n] = "</div>" /\ \A m \in (i + 1)..(n - 1) : html[m] # "</div>"
    IN  SubSeq(html, i + 1, j - 1)

IsPrefix(p, text) == Len(p) <= Len(text) /\ SubSeq(text, 1, Len(p)) = p

\* The date lines and bullet lines of an output, in the order they appear.
Event(kind, text) == [kind |-> kind, text |-> text]

RECURSIVE PdfEvents(_)
PdfEvents(story) ==
    IF Len(story) = 0 THEN <<>>
    ELSE LET b == story[1]
         IN  (IF b.f = "Paragraph" /\ Len(b.text) > 0 /\ b.text[1] = "<i>"
              THEN <<Event("date", SubSeq(b.text, 2, Len(b.text) - 1))>>
              ELSE IF b.f = "Paragraph" /\ Len(b.text) > 0 /\ b.text[1] = "[bullet] "
              THEN <<Event("bullet", Tail(b.text))>>
              ELSE <<>>) \o PdfEvents(Tail(story))

RunsText(para) ==
    LET RECURSIVE cat(_)
        cat(runs) == IF Len(runs) = 0 THEN <<>> ELSE runs[1].text \o cat(Tail(runs))
    IN  cat(para.runs)

DocxIsJob(para) ==
    Len(para.runs) = 1 /\ para.runs[1].bold /\ para.runs[1].size = 0

DocxEventAt(paras, i) ==
    IF paras[i].style = "List Bullet" THEN <<Event("bullet", RunsText(paras[i]))>>
    ELSE IF i > 1 /\ DocxIsJob(paras[i - 1]) THEN <<Event("date", RunsText(paras[i]))>>
    ELSE <<>>

RECURSIVE DocxEventsFrom(_, _)
DocxEventsFrom(paras, i) ==
    IF i > Len(paras) THEN <<>>
    ELSE DocxEventAt(paras, i) \o DocxEventsFrom(paras, i + 1)

DocxEvents(paras) == DocxEventsFrom(paras, 1)

HtmlEventAt(html, i) ==
    IF html[i] = "<div class=bullet>" THEN <<Event("bullet", Tail(InnerAt(html, i)))>>
    ELSE IF html[i] = "<div class=date-range>" /\ html[i + 1] # "Graduated: "
    THEN <<Event("date", InnerAt(html, i))>>
    ELSE <<>>

RECURSIVE HtmlEventsFrom(_, _)
HtmlEventsFrom(html, i) ==
    IF i > Len(html) THEN <<>>
    ELSE HtmlEventAt(html, i) \o HtmlEventsFrom(html, i + 1)

HtmlEvents(html) == HtmlEventsFrom(html, 1)

DateLines(events) ==
    LET dates == SelectSeq(events, LAMBDA ev : ev.kind = "date")
    IN  [i \in 1..Len(dates) |-> dates[i].text]

\* The bullet lines of each entry: a date line opens an entry.
RECURSIVE BulletGroups(_)
BulletGroups(events) ==
    IF Len(events) = 0 THEN <<>>
    ELSE LET front == BulletGroups(SubSeq(events, 1, Len(events) - 1))
             last == events[Len(events)]
         IN  IF last.kind = "date" THEN Append(front, <<>>)
             ELSE IF Len(front) = 0 THEN <<<<last.text>>>>
             ELSE [front EXCEPT ![Len(front)] = Append(@, last.text)]

\* All text of an output, markup included.
RECURSIVE PdfText(_)
PdfText(story) ==
    IF Len(story) = 0 THEN <<>> ELSE story[1].text \o PdfText(Tail(story))

RECURSIVE DocxText(_)
DocxText(paras) ==
    IF Len(paras) = 0 THEN <<>> ELSE RunsText(paras[1]) \o DocxText(Tail(paras))

\* ------------------------------------------------- reading the document
IsListOf(x, kind) == x.t = "list" /\ \A i \in 1..Len(x.v) : x.v[i].t = kind

\* The minimal shape of a document (spec sections 3 and 7).
ValidDocument(d) ==
    /\ d.t = "dict"
    /\ HasKey(d, "personal") => Lookup(d, "personal").t = "dict"
    /\ HasKey(d, "summary") => Lookup(d, "summary").t = "str"
    /\ HasKey(d, "work_experience") =>
           /\ IsListOf(Lookup(d, "work_experience"), "dict")
           /\ \A i \in 1..Len(Lookup(d, "work_experience").v) :
                  LET exp == Lookup(d, "work_experience").v[i]
                  IN  HasKey(exp, "bullets") => IsListOf(Lookup(exp, "bullets"), "str")
    /\ HasKey(d, "education") => IsListOf(Lookup(d, "education"), "dict")
    /\ HasKey(d, "skills") =>
           /\ Lookup(d, "skills").t = "dict"
           /\ \A i \in 1..Len(Lookup(d, "skills").v) :
                  IsListOf(Lookup(d, "skills").v[i][2], "str")

WorkEntries(d) == Get(d, "work_experience", JList(<<>>)).v

BulletTexts(exp) ==
    LET bullets == Get(exp, "bullets", JList(<<>>)).v
    IN  [i \in 1..Len(bullets) |-> bullets[i].v]

SkillPairs(d) == Get(d, "skills", JDict(<<>>)).v

\* ------------------------------------------------------------- properties
\* C1: whenever the three exports of one document have returned, the set of
\* sections they render (PERSONAL, SUMMARY, EXPERIENCE, EDUCATION, SKILLS) is
\* the same in the PDF, the DOCX and the HTML output.
C1_SameSectionsInEveryFormat ==
    AllReturned =>
        /\ Range(PdfSections(pdf_data.value)) = Range(DocxSections(docx_data.value))
        /\ Range(DocxSections(docx_data.value)) = Range(HtmlSections(html_data.value))

EndDateBlank(exp) == ~Truthy(Get(exp, "end_date", EmptyStr))

PresentLine(exp) == Format(Get(exp, "start_date", EmptyStr)) \o <<" to ", "Present">>

ReadsPresent(lines, d) ==
    \A i \in 1..Len(WorkEntries(d)) :
        EndDateBlank(WorkEntries(d)[i]) =>
            i <= Len(lines) /\ IsPrefix(PresentLine(WorkEntries(d)[i]), lines[i])

\* C2: in every returned output, the date line of each work-experience entry
\* whose end date is empty or missing reads "{start_date} to Present".
C2_BlankEndDateReadsPresent ==
    ValidDocument(resume_data) =>
        /\ pdf_data.ok => ReadsPresent(DateLines(PdfEvents(pdf_data.value)), resume_data)
        /\ docx_data.ok => ReadsPresent(DateLines(DocxEvents(docx_data.value)), resume_data)
        /\ html_data.ok => ReadsPresent(DateLines(HtmlEvents(html_data.value)), resume_data)

\* C3: the text export_to_html returns holds no markup character that comes
\* from a field value: every "<" and ">" of a value has been escaped.
C3_HtmlEscapesFieldValues ==
    html_data.ok =>
        \A i \in 1..Len(html_data.value) : html_data.value[i] \notin {"<", ">"}

OnlyFullName(personal) ==
    /\ personal.t = "dict"
    /\ Truthy(Get(personal, "full_name", EmptyStr))
    /\ \A k \in {"email", "phone", "location", "linkedin", "website"} :
           ~Truthy(Get(personal, k, EmptyStr))

\* C4: when only full_name is set in personal, each returned output has a
\* header with the name and no contact line, block or element.
C4_NameOnlyHeaderHasNoContactLine ==
    (resume_data.t = "dict" /\ OnlyFullName(Get(resume_data, "personal", JDict(<<>>)))) =>
        LET name == Lookup(Lookup(resume_data, "personal"), "full_name").v
        IN  /\ pdf_data.ok =>
                   /\ pdf_data.value[1] = Paragraph(name, "title")
                   /\ pdf_data.value[2].f = "Spacer"
            /\ docx_data.ok =>
                   /\ RunsText(docx_data.value[1]) = name
                   /\ \A i \in 2..Len(docx_data.value) : docx_data.value[i].align # "center"
            /\ html_data.ok =>
                   /\ \E i \in 1..Len(html_data.value) :
                          /\ html_data.value[i] = "<div class=name>"
                          /\ InnerAt(html_data.value, i) = name
                   /\ \A i \in 1..Len(html_data.value) :
                          html_data.value[i] # "<div class=contact>"

\* C5: in every returned output the sections appear in the order PERSONAL,
\* SUMMARY, EXPERIENCE, EDUCATION, SKILLS, each at most once.
C5_SectionsInFixedOrder ==
    /\ pdf_data.ok => Increasing(PdfSections(pdf_data.value))
    /\ docx_data.ok => Increasing(DocxSections(docx_data.value))
    /\ html_data.ok => Increasing(HtmlSections(html_data.value))

\* All five sections are rendered by all three exports of one document.
C5_Witness ==
    /\ AllReturned
    /\ Len(PdfSections(pdf_data.value)) = 5
    /\ Len(DocxSections(docx_data.value)) = 5
    /\ Len(HtmlSections(html_data.value)) = 5

ExpectedBullets(d) ==
    [i \in 1..Len(WorkEntries(d)) |-> BulletTexts(WorkEntries(d)[i])]

\* C6: in every returned output of a well-shaped document, each entry has one
\* bullet line per element of its bullets, in the same order, with the
\* bullet's text unchanged.
C6_OneBulletLinePerBullet ==
    ValidDocument(resume_data) =>
        /\ pdf_data.ok =>
               BulletGroups(PdfEvents(pdf_data.value)) = ExpectedBullets(resume_data)
        /\ docx_data.ok =>
               BulletGroups(DocxEvents(docx_data.value)) = ExpectedBullets(resume_data)
        /\ html_data.ok =>
               BulletGroups(HtmlEvents(html_data.value)) = ExpectedBullets(resume_data)

\* The three exports of a document that has an entry with the bullets
\* "Led team of 5", "Cut costs 20%" have returned.
C6_Witness ==
    /\ AllReturned
    /\ ValidDocument(resume_data)
    /\ \E i \in 1..Len(WorkEntries(resume_data)) :
           BulletTexts(WorkEntries(resume_data)[i])
               = << <<"Led team of 5">>, <<"Cut costs 20%">> >>

\* The skill lines of an output: <<category, skills text>> in order.
PdfSkillRows(story) ==
    LET lines == SelectSeq(story, LAMBDA b : Len(b.text) > 0 /\ b.text[1] = "<b>"
                                             /\ Len(b.text) >= 3 /\ b.text[3] = ":</b> ")
    IN  [i \in 1..Len(lines) |-> <<lines[i].text[2], SubSeq(lines[i].text, 4, Len(lines[i].text))>>]

DocxSkillRows(paras) ==
    LET lines == SelectSeq(paras, LAMBDA q : Len(q.runs) = 2 /\ Len(q.runs[1].text) = 2
                                             /\ q.runs[1].text[2] = ": ")
    IN  [i \in 1..Len(lines) |-> <<lines[i].runs[1].text[1], lines[i].runs[2].text>>]

RECURSIVE HtmlSkillRowsFrom(_, _)
HtmlSkillRowsFrom(html, i) ==
    IF i > Len(html) THEN <<>>
    ELSE (IF html[i] = "<div class=skill-category>"
          THEN << <<InnerAt(html, i)[2],
                    SubSeq(InnerAt(html, i), 4, Len(InnerAt(html, i)))>> >>
          ELSE <<>>) \o HtmlSkillRowsFrom(html, i + 1)

HtmlSkillRows(html) == HtmlSkillRowsFrom(html, 1)

ExpectedSkillRows(d) ==
    LET shown == SelectSeq(SkillPairs(d), LAMBDA p : Len(p[2].v) > 0)
    IN  [i \in 1..Len(shown) |-> <<shown[i][1], JoinText(", ", shown[i][2].v)>>]

EmptyCategories(d) ==
    {SkillPairs(d)[i][1] : i \in {n \in 1..Len(SkillPairs(d)) : Len(SkillPairs(d)[n][2].v) = 0}}

\* C7: in every returned output of a well-shaped document, the skill lines
\* are exactly the categories with a non-empty list, in order, each with its
\* skills, and the name of a category with an empty list appears nowhere.
C7_EmptyCategoryLeavesNoTrace ==
    ValidDocument(resume_data) =>
        /\ pdf_data.ok =>
               /\ PdfSkillRows(pdf_data.value) = ExpectedSkillRows(resume_data)
               /\ EmptyCategories(resume_data) \cap Range(PdfText(pdf_data.value)) = {}
        /\ docx_data.ok =>
               /\ DocxSkillRows(docx_data.value) = ExpectedSkillRows(resume_data)
               /\ EmptyCategories(resume_data) \cap Range(DocxText(docx_data.value)) = {}
        /\ html_data.ok =>
               /\ HtmlSkillRows(html_data.value) = ExpectedSkillRows(resume_data)
               /\ EmptyCategories(resume_data) \cap Range(html_data.value) = {}

\* The three exports of a document with one empty and one non-empty skill
\* category have returned.
C7_Witness ==
    /\ AllReturned
    /\ ValidDocument(resume_data)
    /\ EmptyCategories(resume_data) # {}
    /\ Len(ExpectedSkillRows(resume_data)) > 0

AllSkillListsEmpty(d) ==
    Len(SkillPairs(d)) > 0 /\ Len(ExpectedSkillRows(d)) = 0

\* C8: when skills is non-empty but every category has an empty list, no
\* returned output has a SKILLS heading.
C8_NoSkillsHeadingWithoutSkills ==
    (ValidDocument(resume_data) /\ AllSkillListsEmpty(resume_data)) =>
        /\ pdf_data.ok => "SKILLS" \notin Range(PdfSections(pdf_data.value))
        /\ docx_data.ok => "SKILLS" \notin Range(DocxSections(docx_data.value))
        /\ html_data.ok => "SKILLS" \notin Range(HtmlSections(html_data.value))

\* C9: an export of a document that does not have the minimal shape fails
\* with InvalidDocument, raised before anything has been rendered.
C9_InvalidDocumentRaisedFirst ==
    ~ValidDocument(resume_data) =>
        \A r \in Results :
            Called(r) => ~r.ok /\ r.exc = "InvalidDocument" /\ r.partial = <<>>

FormatTag(fmt) ==
    CASE fmt = "PDF" -> "PDF export failed: "
      [] fmt = "DOCX" -> "DOCX export failed: "
      [] OTHER -> "HTML export failed: "

WrappedAndTagged(r, fmt) ==
    (Called(r) /\ ~r.ok) =>
        r.cause # "none" /\ Len(r.msg) > 0 /\ r.msg[1] = FormatTag(fmt)

\* C10: every export that fails hands its caller an error that wraps the
\* originating exception and names the format that failed.
C10_FailureWrappedAndTagged ==
    /\ WrappedAndTagged(pdf_data, "PDF")
    /\ WrappedAndTagged(docx_data, "DOCX")
    /\ WrappedAndTagged(html_data, "HTML")

\* An export has just been made: a result that was not there before.
ExportStep ==
    \/ Called(pdf_data') /\ pdf_data' # pdf_data
    \/ Called(docx_data') /\ docx_data' # docx_data
    \/ Called(html_data') /\ html_data' # html_data

\* C11: a call of export_to_pdf, export_to_docx or export_to_html, whether it
\* returns or raises, leaves every field of the document it was given as it
\* was before the call.
C11_ExportLeavesDocument == [][ExportStep => resume_data' = resume_data]_vars

\* The three exports of a document that lacks a section key have been made,
\* and the PDF one raised.
C11_Witness ==
    /\ Called(pdf_data) /\ Called(docx_data) /\ Called(html_data)
    /\ ~pdf_data.ok
    /\ resume_data.t = "dict" /\ ~HasKey(resume_data, "work_experience")

\* The blocks of a section of the PDF story: from its heading to the next.
PdfSectionBlocks(story, name) ==
    LET marks == {i \in 1..Len(story) : PdfMark(story, i) = name}
    IN  IF marks = {} THEN <<>>
        ELSE LET start == CHOOSE i \in marks : \A j \in marks : i <= j
                 later == {j \in (start + 1)..Len(story) : PdfMark(story, j) # ""}
                          \cup {Len(story) + 1}
                 stop == CHOOSE j \in later : \A k \in later : j <= k
             IN  SubSeq(story, start + 1, stop - 1)

DocxSectionParas(paras, name) ==
    LET marks == {i \in 1..Len(paras) : DocxMark(paras, i) = name}
    IN  IF marks = {} THEN <<>>
        ELSE LET start == CHOOSE i \in marks : \A j \in marks : i <= j
                 later == {j \in (start + 1)..Len(paras) : DocxMark(paras, j) # ""}
                          \cup {Len(paras) + 1}
                 stop == CHOOSE j \in later : \A k \in later : j <= k
             IN  SubSeq(paras, start + 1, stop - 1)

\* A line of the PDF as it reads once the inline markup is rendered.
Visible(text) == SelectSeq(text, LAMBDA tok : tok \notin {"<b>", "</b>", "<i>", "</i>"})

\* The education lines of an output, in the order they appear.
PdfEduLines(story) ==
    LET lines == SelectSeq(PdfSectionBlocks(story, "EDUCATION"),
                           LAMBDA b : b.f = "Paragraph")
    IN  [i \in 1..Len(lines) |-> Visible(lines[i].text)]

DocxEduLines(paras) ==
    LET lines == DocxSectionParas(paras, "EDUCATION")
    IN  [i \in 1..Len(lines) |-> RunsText(lines[i])]

RECURSIVE HtmlEduLinesFrom(_, _)
HtmlEduLinesFrom(html, i) ==
    IF i > Len(html) THEN <<>>
    ELSE (IF html[i] = "<div class=job-title>" THEN <<InnerAt(html, i)>> ELSE <<>>)
             \o HtmlEduLinesFrom(html, i + 1)

HtmlEduLines(html) == HtmlEduLinesFrom(html, 1)

EduEntries(d) == Get(d, "education", JList(<<>>)).v

\* "{degree}[ in {major}] - {school}[ (graduationDate)]"
EduLine(edu) ==
    LET major == Get(edu, "major", EmptyStr)
        graduation_date == Get(edu, "graduation_date", EmptyStr)
    IN  Format(Get(edu, "degree", EmptyStr))
            \o (IF Truthy(major) THEN <<" in ">> \o Format(major) ELSE <<>>)
            \o <<" - ">> \o Format(Get(edu, "school", EmptyStr))
            \o (IF Truthy(graduation_date)
                THEN <<" (">> \o Format(graduation_date) \o <<")">> ELSE <<>>)

ExpectedEduLines(d) == [i \in 1..Len(EduEntries(d)) |-> EduLine(EduEntries(d)[i])]

\* C13: in every returned output of a well-shaped document, each education
\* entry is one line "{degree}[ in {major}] - {school}[ (graduationDate)]",
\* the bracketed fragments present only when the field is non-empty, composed
\* in that order by all three renderers.
C13_EducationLineSameInEveryFormat ==
    ValidDocument(resume_data) =>
        /\ pdf_data.ok => PdfEduLines(pdf_data.value) = ExpectedEduLines(resume_data)
        /\ docx_data.ok => DocxEduLines(docx_data.value) = ExpectedEduLines(resume_data)
        /\ html_data.ok => HtmlEduLines(html_data.value) = ExpectedEduLines(resume_data)

\* The title lines of the work-experience entries of an output, in order.
PdfTitleLines(story) ==
    LET lines == SelectSeq(PdfSectionBlocks(story, "EXPERIENCE"),
                           LAMBDA b : b.f = "Paragraph" /\ Len(b.text) > 0
                                      /\ b.text[1] = "<b>")
    IN  [i \in 1..Len(lines) |-> Visible(lines[i].text)]

DocxTitleLines(paras) ==
    LET lines == SelectSeq(DocxSectionParas(paras, "EXPERIENCE"), DocxIsJob)
    IN  [i \in 1..Len(lines) |-> RunsText(lines[i])]

HtmlVisible(text) ==
    SelectSeq(text, LAMBDA tok : tok \notin {"<span class=job-title>",
                                             "<span class=company>", "</span>"})

RECURSIVE HtmlTitleLinesFrom(_, _)
HtmlTitleLinesFrom(html, i) ==
    IF i > Len(html) THEN <<>>
    ELSE (IF html[i] = "<div>" THEN <<HtmlVisible(InnerAt(html, i))>> ELSE <<>>)
             \o HtmlTitleLinesFrom(html, i + 1)

HtmlTitleLines(html) == HtmlTitleLinesFrom(html, 1)

\* "{job_title} - {company}[ (location)]"
TitleLine(exp) ==
    LET location == Get(exp, "location", EmptyStr)
    IN  Format(Get(exp, "job_title", EmptyStr)) \o <<" - ">>
            \o Format(Get(exp, "company", EmptyStr))
            \o (IF Truthy(location) THEN <<" (">> \o Format(location) \o <<")">> ELSE <<>>)

ExpectedTitleLines(d) ==
    [i \in 1..Len(WorkEntries(d)) |-> TitleLine(WorkEntries(d)[i])]

\* C14: in every returned output of a well-shaped document, the title line of
\* each work-experience entry ends with " (location)" when the entry's
\* location is non-empty and has no such suffix when it is empty: all three
\* renderers show the location, in the same place, or none does.
C14_LocationSuffixInEveryFormat ==
    ValidDocument(resume_data) =>
        /\ pdf_data.ok => PdfTitleLines(pdf_data.value) = ExpectedTitleLines(resume_data)
        /\ docx_data.ok => DocxTitleLines(docx_data.value) = ExpectedTitleLines(resume_data)
        /\ html_data.ok => HtmlTitleLines(html_data.value) = ExpectedTitleLines(resume_data)

PersonalOf(d) == Get(d, "personal", JDict(<<>>))

\* The values of linkedin and website that are non-empty.
LinkValues(personal) ==
    {Get(personal, k, EmptyStr).v : k \in {"linkedin", "website"}} \ {<<>>}

\* An output shows a link when the link's text is in it.
ShowsLinks(text, personal) ==
    \E link \in LinkValues(personal) : Range(link) \subseteq Range(text)

\* C15: whenever the three exports of one document have returned, the links
\* line (linkedin, website) is present in the PDF exactly if it is present in
\* the DOCX, and in the DOCX exactly if it is present in the HTML.
C15_LinksLineInEveryFormatOrNone ==
    (AllReturned /\ ValidDocument(resume_data)) =>
        LET personal == PersonalOf(resume_data)
        IN  /\ ShowsLinks(PdfText(pdf_data.value), personal)
                   <=> ShowsLinks(DocxText(docx_data.value), personal)
            /\ ShowsLinks(DocxText(docx_data.value), personal)
                   <=> ShowsLinks(html_data.value, personal)

\* The contact lines of an output: the body lines of the PDF before the first
\* section heading, the centred lines of the DOCX other than the name, the
\* first contact element of the HTML header.
PdfContactLines(story) ==
    LET heads == {i \in 1..Len(story) : story[i].style = "heading"} \cup {Len(story) + 1}
        stop == CHOOSE i \in heads : \A j \in heads : i <= j
        lines == SelectSeq(SubSeq(story, 1, stop - 1),
                           LAMBDA b : b.f = "Paragraph" /\ b.style = "body")
    IN  [i \in 1..Len(lines) |-> lines[i].text]

DocxContactLines(paras) ==
    LET lines == SelectSeq(paras, LAMBDA q : q.align = "center" /\ DocxMark(<<q>>, 1) = "")
    IN  [i \in 1..Len(lines) |-> RunsText(lines[i])]

HtmlContactLines(html) ==
    LET at == {i \in 1..Len(html) : html[i] = "<div class=contact>"}
    IN  IF at = {} THEN <<>>
        ELSE <<InnerAt(html, CHOOSE i \in at : \A j \in at : i <= j)>>

ExpectedContactLines(personal, sep) ==
    IF Len(ContactInfo(personal)) = 0 THEN <<>>
    ELSE <<JoinText(sep, ContactInfo(personal))>>

\* C16: in every returned output of a well-shaped document the contact line
\* is exactly the non-empty values among email, phone, location, in that
\* order, joined by the bullet separator (PDF, DOCX) or by " | " (HTML), and
\* there is one exactly if at least one of the three is non-empty, whether or
\* not full_name is set.
C16_ContactLineIsNonEmptyValues ==
    ValidDocument(resume_data) =>
        LET personal == PersonalOf(resume_data)
        IN  /\ pdf_data.ok =>
                   PdfContactLines(pdf_data.value)
                       = ExpectedContactLines(personal, " [bullet] ")
            /\ docx_data.ok =>
                   DocxContactLines(docx_data.value)
                       = ExpectedContactLines(personal, " [bullet] ")
            /\ html_data.ok =>
                   HtmlContactLines(html_data.value) = ExpectedContactLines(personal, " | ")

\* The tokens of a line before the first separator.
Before(text, stops) ==
    LET at == {i \in 1..Len(text) : text[i] \in stops} \cup {Len(text) + 1}
    IN  SubSeq(text, 1, (CHOOSE i \in at : \A j \in at : i <= j) - 1)

JobTitles(lines) == [i \in 1..Len(lines) |-> Before(lines[i], {" - "})]

Degrees(lines) == [i \in 1..Len(lines) |-> Before(lines[i], {" in ", " - "})]

ExpectedJobTitles(d) ==
    [i \in 1..Len(WorkEntries(d)) |-> Format(Get(WorkEntries(d)[i], "job_title", EmptyStr))]

ExpectedDegrees(d) ==
    [i \in 1..Len(EduEntries(d)) |-> Format(Get(EduEntries(d)[i], "degree", EmptyStr))]

\* C17: in every returned output of a well-shaped document the
\* work-experience entries and the education entries appear in the order of
\* their lists, one entry of the output per entry of the list: no renderer
\* re-sorts, drops or duplicates one.
C17_EntriesInInsertionOrder ==
    ValidDocument(resume_data) =>
        /\ pdf_data.ok =>
               /\ JobTitles(PdfTitleLines(pdf_data.value)) = ExpectedJobTitles(resume_data)
               /\ Degrees(PdfEduLines(pdf_data.value)) = ExpectedDegrees(resume_data)
        /\ docx_data.ok =>
               /\ JobTitles(DocxTitleLines(docx_data.value)) = ExpectedJobTitles(resume_data)
               /\ Degrees(DocxEduLines(docx_data.value)) = ExpectedDegrees(resume_data)
        /\ html_data.ok =>
               /\ JobTitles(HtmlTitleLines(html_data.value)) = ExpectedJobTitles(resume_data)
               /\ Degrees(HtmlEduLines(html_data.value)) = ExpectedDegrees(resume_data)

\* The three exports of a document with two work-experience entries of
\* different titles and two education entries of different degrees, neither
\* list in alphabetical order, have returned.
C17_Witness ==
    /\ AllReturned
    /\ ValidDocument(resume_data)
    /\ ExpectedJobTitles(resume_data) = << <<"Engineer">>, <<"Analyst">> >>
    /\ ExpectedDegrees(resume_data) = << <<"MSc">>, <<"BSc">> >>

\* The service is unavailable or yields nothing usable: no API key, the call
\* raises, or the response content is empty.
NothingUsable(call) ==
    \/ ~Truthy(call.api_key)
    \/ call.service.raises
    \/ call.service.content \in {JNull, EmptyStr}

Contains(text, part) ==
    \E i \in 1..(Len(text) - Len(part) + 1) : SubSeq(text, i, i + Len(part) - 1) = part

\* C18: when the service is unavailable or yields nothing usable,
\* generate_professional_summary returns the templated text with the caller's
\* job title, years and industry in it, and generate_bullet_points returns
\* templated bullets with the caller's job title and company in them.
C18_FallbackNamesCallerInputs ==
    (ai_call.fn # "none" /\ NothingUsable(ai_call)) =>
        /\ ai_call.fn = "summary" =>
               /\ ai_call.result.t = "str"
               /\ IsPrefix(<<"Experienced ">>, ai_call.result.v)
               /\ Contains(ai_call.result.v, Format(ai_call.job_title))
               /\ Contains(ai_call.result.v, Format(ai_call.years_experience))
               /\ Contains(ai_call.result.v, Format(ai_call.industry))
        /\ ai_call.fn = "bullets" =>
               /\ IsListOf(ai_call.result, "str")
               /\ \E i \in 1..Len(ai_call.result.v) :
                      /\ IsPrefix(<<"Performed key responsibilities as ">>,
                                  ai_call.result.v[i].v)
                      /\ Contains(ai_call.result.v[i].v, Format(ai_call.job_title))
               /\ \E i \in 1..Len(ai_call.result.v) :
                      Contains(ai_call.result.v[i].v, Format(ai_call.company))

\* What users.json holds, read without a failure.
StoredUsers(file) == load_users(file, FALSE)

StoredResume(file, username, resume_name) ==
    load_user_resume(file, username, resume_name, FALSE)

\* C19: register_user for a username that is in the store returns
\* (False, "Username already exists") and leaves the store as it was: that
\* user's password hash, email and resumes, and every other user's record.
C19_ExistingUsernameIsRefused ==
    (store_call.fn = "register"
         /\ HasKey(StoredUsers(store_call.before), store_call.username)) =>
        /\ store_call.ret = <<FALSE, "Username already exists">>
        /\ StoredUsers(users_file) = StoredUsers(store_call.before)

\* The call just made was a save under (username, resume_name).
SavedUnder(username, resume_name) ==
    /\ store_call.fn = "save"
    /\ store_call.username = username
    /\ store_call.resume_name = resume_name

\* C20: once save_user_resume(u, d, n) has returned True the store holds d
\* under (u, n) and lists n for u; load_user_resume and get_user_resumes
\* return what the store holds; no call other than a save under the same
\* (u, n) changes what is held there; a save for a username that is not
\* registered returns False and leaves the store as it was.
C20_SavedResumeIsLoadable ==
    /\ (store_call.fn = "save" /\ store_call.ret = TRUE) =>
           /\ StoredResume(users_file, store_call.username, store_call.resume_name)
                  = store_call.resume_data
           /\ store_call.resume_name
                  \in Range(get_user_resumes(users_file, store_call.username, FALSE))
    /\ store_call.fn = "load" =>
           store_call.ret
               = StoredResume(store_call.before, store_call.username, store_call.resume_name)
    /\ store_call.fn = "list" =>
           store_call.ret = get_user_resumes(store_call.before, store_call.username, FALSE)
    /\ \A u \in Usernames, n \in ResumeNames :
           (store_call.fn # "none" /\ ~SavedUnder(u, n)
                /\ StoredResume(store_call.before, u, n) # JNull) =>
               StoredResume(users_file, u, n) = StoredResume(store_call.before, u, n)
    /\ (store_call.fn = "save"
            /\ ~HasKey(StoredUsers(store_call.before), store_call.username)) =>
           /\ store_call.ret = FALSE
           /\ users_file = store_call.before


\* ------------------------------------------------------------------- C21
\* The list an add or delete button acted on, as it is now.
EditedList ==
    IF last_edit.op \in {"add_exp", "delete_exp"}
    THEN Get(resume_data, "work_experience", JList(<<>>)).v
    ELSE Get(resume_data, "education", JList(<<>>)).v

\* items with the element displayed at position i (counted from 0) left out.
Without(items, i) ==
    [j \in 1..(Len(items) - 1) |-> IF j <= i THEN items[j] ELSE items[j + 1]]

\* C21: Delete on the entry displayed at position i removes exactly that
\* entry and keeps the others in their order; Add puts the new entry after
\* the ones already there. So after any sequence of adds and deletes the
\* list is the added entries minus the deleted ones, in insertion order.
C21_DeleteRemovesExactlyThatEntry ==
    /\ last_edit.op \in {"delete_exp", "delete_edu"} =>
           /\ Len(EditedList) = Len(last_edit.before) - 1
           /\ EditedList = Without(last_edit.before, last_edit.i)
    /\ last_edit.op \in {"add_exp", "add_edu"} =>
           /\ Len(EditedList) = Len(last_edit.before) + 1
           /\ SubSeq(EditedList, 1, Len(last_edit.before)) = last_edit.before

\* A first entry of two different ones has been deleted.
C21_Witness ==
    /\ last_edit.op = "delete_exp"
    /\ last_edit.i = 0
    /\ Len(last_edit.before) = 2
    /\ last_edit.before[1] # last_edit.before[2]
    /\ EditedList = <<last_edit.before[2]>>


\* ------------------------------------------------------------------- C22
\* C22: a register_user or save_user_resume call leaves every stored record
\* other than the one of the username it was called for as it was, also
\* when reading users.json fails during the call.
C22_OtherRecordsUntouched ==
    store_call.fn \in {"register", "save"} =>
        \A u \in Usernames :
            (u # store_call.username /\ HasKey(StoredUsers(store_call.before), u)) =>
                /\ HasKey(StoredUsers(users_file), u)
                /\ Lookup(StoredUsers(users_file), u)
                       = Lookup(StoredUsers(store_call.before), u)


\* ------------------------------------------------------------------- C24
\* C24: after register_user(u, p, e) has returned (True, ...) a login with
\* (u, p) returns (True, "Login successful"); after save_user_resume(u, d, n)
\* has returned True a load of (u, n) returns d. Both also when the write
\* to users.json failed during the call.
C24_SuccessMeansStored ==
    /\ (store_call.fn = "register" /\ store_call.ret[1] = TRUE) =>
           login_user(users_file, store_call.username, store_call.password, FALSE)
               = <<TRUE, "Login successful">>
    /\ (store_call.fn = "save" /\ store_call.ret = TRUE) =>
           load_user_resume(users_file, store_call.username, store_call.resume_name, FALSE)
               = store_call.resume_data


\* ------------------------------------------------------------------- C23
\* users.json holds what a call that returned success was to store.
Reflected(file, call) ==
    IF call.fn = "register"
    THEN login_user(file, call.username, call.password, FALSE)[1]
    ELSE load_user_resume(file, call.username, call.resume_name, FALSE) = call.resume_data

\* C23: when a store-updating call returns success and calls of another
\* session returned success while it was between its load and its save, the
\* store holds the update of this call and the updates of those calls: no
\* update is lost, whatever the interleaving.
C23_NoLostUpdate ==
    (last_done.call.fn # "none" /\ last_done.success) =>
        /\ Reflected(users_file, last_done.call)
        /\ \A other \in last_done.overlapped :
               Target(other) # Target(last_done.call) => Reflected(users_file, other)


\* ------------------------------------------------------------------- C25
\* The step was a press of Login that login_user accepted.
LoggedIn == session_op'.op = "login" /\ session_op'.success

\* C25: user_authenticated is True exactly when current_user is not None, in
\* every state of a session. A login that succeeds sets user_authenticated
\* and sets current_user to the username typed; a login that fails changes
\* neither; Logout resets both; no other operation changes either.
C25_AuthenticatedIffCurrentUser ==
    [][/\ user_authenticated <=> current_user # None
       /\ user_authenticated' <=> current_user' # None
       /\ LoggedIn => (user_authenticated' /\ current_user' = Some(session_op'.username))
       /\ (session_op'.op = "login" /\ ~session_op'.success) => UNCHANGED session_vars
       /\ session_op'.op = "logout" => (~user_authenticated' /\ current_user' = None)
       /\ session_op'.op \notin {"login", "logout"} => UNCHANGED session_vars]_vars

\* alice has logged in, after a login of hers had failed or after a logout.
C25_Witness ==
    /\ user_authenticated
    /\ current_user = Some("alice")
    /\ session_op = SessionOp("login", "alice", TRUE)
    /\ store_call.fn = "login"


\* ------------------------------------------------------------------- C26
\* C26: in every state of a session, also after Import Data and after Load
\* Selected Resume, resume_data is a mapping that has a mapping under
\* 'personal', and where it has them a list under 'work_experience' and
\* 'education' and a mapping under 'skills'.
C26_DocumentKeepsItsShape ==
    /\ resume_data.t = "dict"
    /\ HasKey(resume_data, "personal")
    /\ Lookup(resume_data, "personal").t = "dict"
    /\ \A k \in {"work_experience", "education"} :
           HasKey(resume_data, k) => Lookup(resume_data, k).t = "list"
    /\ HasKey(resume_data, "skills") => Lookup(resume_data, "skills").t = "dict"

=============================================================================
